---- MODULE Spec2Model ----
(***************************************************************************)
(* Model of grovetccfg (grove/grovetccfg/grovetccfg.go): the compiler that *)
(* turns a Traffic Ops snapshot into Grove remap rules.                    *)
(*                                                                         *)
(* Text is modelled as a sequence of chunks.  A chunk is a TLA+ string     *)
(* standing for one or more characters that the code never takes apart;    *)
(* wherever the code looks at single characters (prefixes, cut sets,       *)
(* separators, case folding) the text is written one character per chunk.  *)
(***************************************************************************)
EXTENDS Integers, Sequences, FiniteSets, TLC

VARIABLES
    host,        \* -host flag: the hostname whose config is generated
    servers,     \* map hostname -> tc.Server        (makeServersHostnameMap)
    cachegroups, \* map name -> tcv13.CacheGroup     (makeCachegroupsNameMap)
    parents,     \* createRulesOldAPI's local `parents`
    parentsErr,  \* the error getParents returned, "" for nil
    dses,        \* []tc.DeliveryService handed to createRulesOld
    dsRegexes,   \* map XMLID -> []regex pattern     (makeDeliveryserviceRegexMap)
    cdns,        \* map CDN name -> tcv13.CDN        (makeCDNMap)
    dsCerts,     \* map XMLID -> tcv13.CDNSSLKeys    (makeDSCertMap)
    hostParams,  \* []tc.Parameter of the host's profile
    badFiles,    \* file names the file system refuses to write (environment)
    files,       \* file names written so far by createCertificateFiles
    pc,          \* position in createRulesOldAPI / createRulesOld
    i,           \* index of the delivery service the loop of createRulesOld is at
    rules,       \* createRulesOld's local `rules`
    allowedIPs,  \* createRulesOld's local `allowedIPs`
    result,      \* what createRulesOld returned: the error and the remap rules
    log,         \* messages printed to stdout/stderr by createRulesOld
    run,         \* 1 in the first run over the snapshot, 2 in the second
    first,       \* the result of the first run, once a second one was started
    arg,         \* the arguments of a function or a command called on its own
    ret,         \* what that call returned
    disk,        \* the files of the remap rules: path -> contents
    tops,        \* Traffic Ops: the update status of the host and the snapshot
    grove,       \* the grove service: the remap rules it has loaded
    mainv,       \* the locals of main
    monitorConfigTS,  \* TrafficMonitorConfigMapThreadsafe: the config Get returns
    localStates, \* peer.CRStatesThreadsafe: the caches and the delivery services
    subscribers, \* what was sent on the subscriber channels, by channel
    riak,        \* the key store: what was fetched, saved, deleted or generated
    response     \* http.ResponseWriter: the status the handler answered with

vars == << host, servers, cachegroups, parents, parentsErr, dses, dsRegexes, cdns, dsCerts,
           hostParams, badFiles, files, pc, i, rules, allowedIPs, result, log, run,
           first, arg, ret, disk, tops, grove, mainv, monitorConfigTS, localStates,
           subscribers, riak, response >>

\* the state of the other programs of the repository
others == << disk, tops, grove, mainv, monitorConfigTS, localStates, subscribers, riak, response >>

(***************************************************************************)
(* Bounds of the model.                                                    *)
(***************************************************************************)
\* longest list of delivery services in a snapshot
MaxDS == 2
\* largest number of fields in which the delivery services of a snapshot
\* differ, taken together, from the default delivery service
MaxDev == 2

(***************************************************************************)
(* Go's strings package on chunk sequences.                                *)
(***************************************************************************)
HasPrefix(s, p) == Len(s) >= Len(p) /\ SubSeq(s, 1, Len(p)) = p

HasSuffix(s, p) == Len(s) >= Len(p) /\ SubSeq(s, Len(s) - Len(p) + 1, Len(s)) = p

Contains(s, p) == \E k \in 0..(Len(s) - Len(p)) : SubSeq(s, k + 1, k + Len(p)) = p

TrimPrefix(s, p) == IF HasPrefix(s, p) THEN SubSeq(s, Len(p) + 1, Len(s)) ELSE s

TrimSuffix(s, p) == IF HasSuffix(s, p) THEN SubSeq(s, 1, Len(s) - Len(p)) ELSE s

\* strings.Trim(s, cutset): drops leading and trailing chunks that are in cutset
RECURSIVE TrimLeft(_, _)
TrimLeft(s, cutset) ==
    IF s # <<>> /\ Head(s) \in cutset THEN TrimLeft(Tail(s), cutset) ELSE s

RECURSIVE TrimRight(_, _)
TrimRight(s, cutset) ==
    IF s # <<>> /\ s[Len(s)] \in cutset
    THEN TrimRight(SubSeq(s, 1, Len(s) - 1), cutset) ELSE s

Trim(s, cutset) == TrimRight(TrimLeft(s, cutset), cutset)

\* strings.Split(s, sep) for a non-empty sep: the pieces between the separators
RECURSIVE SplitFrom(_, _, _)
SplitFrom(s, sep, cur) ==
    IF s = <<>> THEN << cur >>
    ELSE IF HasPrefix(s, sep)
         THEN << cur >> \o SplitFrom(SubSeq(s, Len(sep) + 1, Len(s)), sep, <<>>)
         ELSE SplitFrom(Tail(s), sep, Append(cur, Head(s)))

Split(s, sep) == SplitFrom(s, sep, <<>>)

SP == " "

\* strings.Fields(s): the maximal runs of non-space chunks
RECURSIVE FieldsFrom(_, _)
FieldsFrom(s, cur) ==
    IF s = <<>> THEN (IF cur = <<>> THEN <<>> ELSE << cur >>)
    ELSE IF Head(s) = SP
         THEN (IF cur = <<>> THEN <<>> ELSE << cur >>) \o FieldsFrom(Tail(s), <<>>)
         ELSE FieldsFrom(Tail(s), Append(cur, Head(s)))

Fields(s) == FieldsFrom(s, <<>>)

\* strings.Join(a, sep)
RECURSIVE Join(_, _)
Join(a, sep) ==
    IF a = <<>> THEN <<>>
    ELSE IF Len(a) = 1 THEN a[1]
    ELSE a[1] \o sep \o Join(Tail(a), sep)

\* strings.Replace(s, old, "", -1): every occurrence of old removed
RECURSIVE RemoveAll(_, _)
RemoveAll(s, old) ==
    IF s = <<>> THEN <<>>
    ELSE IF HasPrefix(s, old) THEN RemoveAll(SubSeq(s, Len(old) + 1, Len(s)), old)
    ELSE << Head(s) >> \o RemoveAll(Tail(s), old)

Upper == << "A","B","C","D","E","F","G","H","I","J","K","L","M",
            "N","O","P","Q","R","S","T","U","V","W","X","Y","Z" >>
Lower == << "a","b","c","d","e","f","g","h","i","j","k","l","m",
            "n","o","p","q","r","s","t","u","v","w","x","y","z" >>

\* strings.ToLower, chunk by chunk
ToLower(s) ==
    [ k \in 1..Len(s) |->
        IF \E n \in 1..Len(Upper) : Upper[n] = s[k]
        THEN Lower[CHOOSE n \in 1..Len(Upper) : Upper[n] = s[k]]
        ELSE s[k] ]

\* the orders in which a Go map with key set S can be ranged over
RECURSIVE Orders(_)
Orders(S) ==
    IF S = {} THEN { <<>> }
    ELSE UNION { { << x >> \o p : p \in Orders(S \ {x}) } : x \in S }

\* a pointer or optional value: Nil, or Some(v)
Nil == <<>>
Some(v) == << v >>

(***************************************************************************)
(* Literal strings of the program.                                         *)
(***************************************************************************)
sHTTP == << "h","t","t","p" >>
sHTTPS == << "h","t","t","p","s" >>
sDNS == << "d","n","s" >>
sLive == << "l","i","v","e" >>
sNatnl == << "n","a","t","n","l" >>
sHTTPNoCache == << "h","t","t","p","_","n","o","_","c","a","c","h","e" >>
sHTTPLive == << "h","t","t","p","_","l","i","v","e" >>
sDNSLive == << "d","n","s","_","l","i","v","e" >>
sReported == << "r","e","p","o","r","t","e","d" >>
sOnline == << "o","n","l","i","n","e" >>
DOT == << "." >>
COLON == << ":" >>

\* AvailableStatuses(): the statuses of a server that may be used as a parent
AvailableStatuses == { sReported, sOnline }

(***************************************************************************)
(* The topology snapshots: servers and cache groups.                       *)
(***************************************************************************)
Server(h, cg, cdn, st, port) ==
    [ HostName |-> h, Cachegroup |-> cg, CDNName |-> cdn, Status |-> st,
      DomainName |-> << "example.net" >>, TCPPort |-> port ]

HostEdge == << "edge1" >>
CGEdge == << "cg-edge" >>
CGMid == << "cg-mid" >>
CDN1 == << "cdn1" >>
CDN2 == << "cdn2" >>

EdgeServer == Server(HostEdge, CGEdge, CDN1, << "R","E","P","O","R","T","E","D" >>, 80)
Mid1 == Server(<< "mid1" >>, CGMid, CDN1, << "R","E","P","O","R","T","E","D" >>, 80)
Mid2 == Server(<< "mid2" >>, CGMid, CDN1, << "O","N","L","I","N","E" >>, 8080)
Mid3 == Server(<< "mid3" >>, CGMid, CDN2, << "R","E","P","O","R","T","E","D" >>, 80)
Mid4 == Server(<< "mid4" >>, CGMid, CDN1, << "O","F","F","L","I","N","E" >>, 80)

\* the last element of the array arr whose key is k
LastWith(arr, key(_), k) ==
    arr[CHOOSE n \in 1..Len(arr) :
          /\ key(arr[n]) = k
          /\ \A m \in (n + 1)..Len(arr) : key(arr[m]) # k]

\* makeServersHostnameMap
makeServersHostnameMap(arr) ==
    LET HostNameOf(x) == x.HostName
    IN [ h \in { arr[n].HostName : n \in 1..Len(arr) } |-> LastWith(arr, HostNameOf, h) ]

\* makeCachegroupsNameMap
makeCachegroupsNameMap(arr) ==
    LET NameOf(x) == x.Name
    IN [ c \in { arr[n].Name : n \in 1..Len(arr) } |-> LastWith(arr, NameOf, c) ]

CacheGroupEdge == [ Name |-> CGEdge, ParentName |-> CGMid ]
CacheGroupEdgeRoot == [ Name |-> CGEdge, ParentName |-> <<>> ]
CacheGroupMid == [ Name |-> CGMid, ParentName |-> <<>> ]

ServerSnapshots ==
    { makeServersHostnameMap(S) :
        S \in { << EdgeServer, Mid1, Mid2, Mid3, Mid4 >>,
                << EdgeServer, Mid3, Mid4 >>,
                << EdgeServer >>,
                << Mid1, Mid2, Mid3, Mid4 >> } }

CachegroupSnapshots ==
    { makeCachegroupsNameMap(G) :
        G \in { << CacheGroupEdge, CacheGroupMid >>,
                << CacheGroupEdgeRoot, CacheGroupMid >>,
                << CacheGroupMid >> } }

(***************************************************************************)
(* Parent resolution.                                                      *)
(***************************************************************************)
\* the loop of getParents, ranging over the servers map in the given order
RECURSIVE collectParents(_, _, _)
collectParents(order, srvs, parentName) ==
    IF order = <<>> THEN <<>>
    ELSE (IF srvs[Head(order)].Cachegroup = parentName
          THEN << srvs[Head(order)] >> ELSE <<>>)
         \o collectParents(Tail(order), srvs, parentName)

\* Fault: getParents takes a host whose cache group is unknown for a host
\* without parents.
getParentsNoCachegroup(hostname, srvs, cgs, order) ==
    IF hostname \notin DOMAIN srvs
    THEN [ err |-> "hostname not found in Servers", parents |-> <<>> ]
    ELSE IF srvs[hostname].Cachegroup \notin DOMAIN cgs
    THEN [ err |-> "", parents |-> <<>> ]
    ELSE [ err |-> "",
           parents |-> collectParents(order, srvs,
                                      cgs[srvs[hostname].Cachegroup].ParentName) ]

\* getParents(hostname, servers, cachegroups); `order` is the order in which
\* the runtime ranges over the servers map
getParents(hostname, srvs, cgs, order) ==
    IF hostname \notin DOMAIN srvs
    THEN [ err |-> "hostname not found in Servers", parents |-> <<>> ]
    ELSE IF srvs[hostname].Cachegroup \notin DOMAIN cgs
    THEN [ err |-> "server cachegroup not found in Cachegroups", parents |-> <<>> ]
    ELSE [ err |-> "",
           parents |-> collectParents(order, srvs,
                                      cgs[srvs[hostname].Cachegroup].ParentName) ]

\* filterParents(parents, include): the parents include accepts, in order;
\* include is the closure, as a function of the server
RECURSIVE filterParents(_, _)
filterParents(ps, include) ==
    IF ps = <<>>
    THEN <<>>
    ELSE (IF include[Head(ps)] THEN << Head(ps) >> ELSE <<>>)
           \o filterParents(Tail(ps), include)

\* Fault: the parents of every CDN are kept.
anyCDN(s, hostServer) == TRUE

\* the closure sameCDN of createRulesOldAPI
sameCDN(s, hostServer) == s.CDNName = hostServer.CDNName

\* the closure serverAvailable of createRulesOldAPI
serverAvailable(s) == ToLower(s.Status) \in AvailableStatuses

(***************************************************************************)
(* Go's net package: addresses are byte sequences.                         *)
(***************************************************************************)
Digits == << "0","1","2","3","4","5","6","7","8","9" >>
HexDigits == << "0","1","2","3","4","5","6","7","8","9",
                "a","b","c","d","e","f","A","B","C","D","E","F" >>

IsDigit(c) == \E n \in 1..Len(Digits) : Digits[n] = c
DigitVal(c) == (CHOOSE n \in 1..Len(Digits) : Digits[n] = c) - 1

IsHex(c) == \E n \in 1..Len(HexDigits) : HexDigits[n] = c
HexVal(c) ==
    LET n == CHOOSE m \in 1..Len(HexDigits) : HexDigits[m] = c
    IN IF n <= 16 THEN n - 1 ELSE n - 7

\* the value net.dtoi and net.xtoi give when the number is too big
big == 16777215

\* net.dtoi(s): the decimal number at the start of s: [n, c, ok], c the
\* number of chunks read
RECURSIVE dtoiFrom(_, _, _)
dtoiFrom(s, n, c) ==
    IF c < Len(s) /\ IsDigit(s[c + 1])
    THEN IF n * 10 + DigitVal(s[c + 1]) >= big
         THEN [ n |-> big, c |-> c + 1, ok |-> FALSE ]
         ELSE dtoiFrom(s, n * 10 + DigitVal(s[c + 1]), c + 1)
    ELSE IF c = 0 THEN [ n |-> 0, c |-> 0, ok |-> FALSE ]
         ELSE [ n |-> n, c |-> c, ok |-> TRUE ]

dtoi(s) == dtoiFrom(s, 0, 0)

\* net.xtoi(s): the hexadecimal number at the start of s
RECURSIVE xtoiFrom(_, _, _)
xtoiFrom(s, n, c) ==
    IF c < Len(s) /\ IsHex(s[c + 1])
    THEN IF n * 16 + HexVal(s[c + 1]) >= big
         THEN [ n |-> 0, c |-> c + 1, ok |-> FALSE ]
         ELSE xtoiFrom(s, n * 16 + HexVal(s[c + 1]), c + 1)
    ELSE IF c = 0 THEN [ n |-> 0, c |-> 0, ok |-> FALSE ]
         ELSE [ n |-> n, c |-> c, ok |-> TRUE ]

xtoi(s) == xtoiFrom(s, 0, 0)

IPv4len == 4
IPv6len == 16
v4InV6Prefix == << 0, 0, 0, 0, 0, 0, 0, 0, 0, 0, 255, 255 >>
Drop(s, n) == SubSeq(s, n + 1, Len(s))
Zeros(n) == [ k \in 1..n |-> 0 ]

\* net.parseIPv4(s): the four bytes, or Nil
RECURSIVE parseIPv4From(_, _)
parseIPv4From(s, bytes) ==
    IF Len(bytes) = IPv4len
    THEN (IF s = <<>> THEN Some(v4InV6Prefix \o bytes) ELSE Nil)
    ELSE IF s = <<>> THEN Nil
    ELSE IF bytes # <<>> /\ Head(s) # "." THEN Nil
    ELSE LET t == IF bytes # <<>> THEN Tail(s) ELSE s
             field(d) == IF ~d.ok \/ d.n > 255 THEN Nil
                         ELSE parseIPv4From(Drop(t, d.c), Append(bytes, d.n))
         IN field(dtoi(t))

parseIPv4(s) == parseIPv4From(s, <<>>)

\* the end of net.parseIPv6: the whole string was used, and the ellipsis is
\* expanded; ip holds the bytes read so far
expandEllipsis(s, ip, ellipsis) ==
    IF s # <<>> THEN Nil
    ELSE IF Len(ip) < IPv6len
    THEN IF ellipsis < 0 THEN Nil
         ELSE Some(SubSeq(ip, 1, ellipsis) \o Zeros(IPv6len - Len(ip))
                   \o SubSeq(ip, ellipsis + 1, Len(ip)))
    ELSE IF ellipsis >= 0 THEN Nil ELSE Some(ip)

\* one round of the loop of net.parseIPv6: x is the hexadecimal number read
\* at the start of s, ip4 the result of parseIPv4(s).  The result is
\* [done, ip] when the loop is left and [done, s, ip, ellipsis] when it goes on
parseIPv6Step(s, ip, ellipsis, x, ip4) ==
    LET ip2 == ip \o << x.n \div 256, x.n % 256 >>
        s2 == SubSeq(s, x.c + 1, Len(s))
        return(v) == [ done |-> TRUE, ip |-> v ]
        end(v, e) == [ done |-> FALSE, s |-> <<>>, ip |-> v, ellipsis |-> e ]
    IN IF ~x.ok \/ x.n > 65535 THEN return(Nil)
       ELSE IF x.c < Len(s) /\ s[x.c + 1] = "."
       THEN IF ellipsis < 0 /\ Len(ip) # IPv6len - IPv4len THEN return(Nil)
            ELSE IF Len(ip) + IPv4len > IPv6len THEN return(Nil)
            ELSE IF ip4 = Nil THEN return(Nil)
            ELSE end(ip \o SubSeq(ip4[1], 13, 16), ellipsis)
       ELSE IF s2 = <<>> THEN end(ip2, ellipsis)
       ELSE IF s2[1] # ":" \/ Len(s2) = 1 THEN return(Nil)
       ELSE IF s2[2] = ":"
       THEN IF ellipsis >= 0 THEN return(Nil)
            ELSE IF Len(s2) = 2 THEN end(ip2, Len(ip2))
            ELSE [ done |-> FALSE, s |-> SubSeq(s2, 3, Len(s2)), ip |-> ip2,
                   ellipsis |-> Len(ip2) ]
       ELSE [ done |-> FALSE, s |-> SubSeq(s2, 2, Len(s2)), ip |-> ip2,
              ellipsis |-> ellipsis ]

\* the loop of net.parseIPv6
RECURSIVE parseIPv6Loop(_, _, _)
parseIPv6Loop(s, ip, ellipsis) ==
    IF Len(ip) >= IPv6len \/ s = <<>> THEN expandEllipsis(s, ip, ellipsis)
    ELSE LET next(r) == IF r.done THEN r.ip
                        ELSE parseIPv6Loop(r.s, r.ip, r.ellipsis)
         IN next(parseIPv6Step(s, ip, ellipsis, xtoi(s), parseIPv4(s)))

\* net.parseIPv6(s)
parseIPv6(s) ==
    LET leading == Len(s) >= 2 /\ s[1] = ":" /\ s[2] = ":"
    IN IF leading /\ Len(s) = 2 THEN Some(Zeros(IPv6len))
       ELSE parseIPv6Loop(IF leading THEN Drop(s, 2) ELSE s, <<>>,
                          IF leading THEN 0 ELSE -1)

\* net.ParseIP(s): the 16 bytes of the address, or Nil
ParseIP(s) ==
    LET marks == { k \in 1..Len(s) : s[k] = "." \/ s[k] = ":" }
    IN IF marks = {} THEN Nil
       ELSE IF s[CHOOSE k \in marks : \A m \in marks : k <= m] = "."
       THEN parseIPv4(s)
       ELSE parseIPv6(s)

\* the byte b with all but its first k bits cleared
AndMask(b, k) == b - (b % (2 ^ (8 - k)))

\* net.CIDRMask(ones, bits): the bytes of the mask, <<>> for a nil mask
CIDRMask(ones, bits) ==
    IF (bits # 8 * IPv4len /\ bits # 8 * IPv6len) \/ ones < 0 \/ ones > bits
    THEN <<>>
    ELSE [ k \in 1..(bits \div 8) |->
             IF ones >= 8 * k THEN 255
             ELSE IF ones <= 8 * (k - 1) THEN 0
             ELSE AndMask(255, ones - 8 * (k - 1)) ]

\* b & m for a byte m of a CIDR mask
AndByte(b, m) == b - (b % (256 - m))

\* IP.Mask(mask) for an address ip of 16 bytes: Nil, or the masked address
IPMask(ip, mask) ==
    LET ip2 == IF Len(mask) = IPv4len /\ SubSeq(ip, 1, 12) = v4InV6Prefix
               THEN SubSeq(ip, 13, 16) ELSE ip
    IN IF Len(ip2) # Len(mask) THEN Nil
       ELSE Some([ k \in 1..Len(ip2) |-> AndByte(ip2[k], mask[k]) ])

\* IP.Equal(x), on addresses that may be Nil
IPEqual(a, b) ==
    IF a = Nil \/ b = Nil THEN a = b
    ELSE IF Len(a[1]) = Len(b[1]) THEN a[1] = b[1]
    ELSE IF Len(a[1]) = IPv4len THEN b[1] = v4InV6Prefix \o a[1]
    ELSE a[1] = v4InV6Prefix \o b[1]

IPNet(ip, mask) == [ IP |-> ip, Mask |-> mask ]

\* net.ParseCIDR(s): [err, net]
ParseCIDR(s) ==
    LET slash == { k \in 1..Len(s) : s[k] = "/" }
        at == CHOOSE k \in slash : \A m \in slash : k <= m
        addr == SubSeq(s, 1, at - 1)
        msk == Drop(s, at)
        isV4 == \E k \in 1..Len(addr) : addr[k] = "."
                /\ \A m \in 1..k : addr[m] # ":"
        bits == IF isV4 THEN 8 * IPv4len ELSE 8 * IPv6len
        masked(ip, m) == [ err |-> FALSE, net |-> Some(IPNet(IPMask(ip[1], m), m)) ]
        parsed(ip, d) ==
            IF ip = Nil \/ ~d.ok \/ d.c # Len(msk) \/ d.n < 0 \/ d.n > bits
            THEN [ err |-> TRUE, net |-> Nil ]
            ELSE masked(ip, CIDRMask(d.n, bits))
    IN IF slash = {} THEN [ err |-> TRUE, net |-> Nil ]
       ELSE parsed(ParseIP(addr), dtoi(msk))

(***************************************************************************)
(* The ACL compiler.                                                       *)
(***************************************************************************)
sActionAllow == << "@action=allow" >>
sSrcIP == << "@","s","r","c","_","i","p","=" >>
Range(q) == { q[k] : k \in 1..Len(q) }

\* Fault: the mask is widened a byte at a time.
RECURSIVE widenByBytes(_, _, _, _)
widenByBytes(start, end, maskBits, allBits) ==
    IF IPEqual(IPMask(start, CIDRMask(maskBits, allBits)),
               IPMask(end, CIDRMask(maskBits, allBits)))
    THEN maskBits
    ELSE widenByBytes(start, end, maskBits - 8, allBits)

\* the loop of makeACL that widens the mask until start and end agree
RECURSIVE widen(_, _, _, _)
widen(start, end, maskBits, allBits) ==
    IF IPEqual(IPMask(start, CIDRMask(maskBits, allBits)),
               IPMask(end, CIDRMask(maskBits, allBits)))
    THEN maskBits
    ELSE widen(start, end, maskBits - 1, allBits)

\* the body of makeACL's loop for one token: [err, net]
aclToken(allowStr) ==
    LET isRange == Contains(allowStr, << "-" >>)
        allBits == IF Contains(allowStr, COLON) THEN 128 ELSE 32
        masked(ip, mask) == [ err |-> FALSE, net |-> Some(IPNet(IPMask(ip, mask), mask)) ]
        ranged(a, start, end) ==
            IF Len(a) < 2 THEN [ err |-> TRUE, net |-> Nil ]
            ELSE IF start = Nil \/ end = Nil THEN [ err |-> TRUE, net |-> Nil ]
            ELSE masked(start[1],
                        CIDRMask(widen(start[1], end[1], allBits, allBits), allBits))
        single(addr) ==
            IF addr = Nil THEN [ err |-> TRUE, net |-> Nil ]
            ELSE masked(addr[1], CIDRMask(allBits, allBits))
        \* a of the range branch; the address text of the other branch
        texts(a) == IF isRange THEN ranged(a, ParseIP(a[1]), ParseIP(a[2]))
                    ELSE single(ParseIP(a[1]))
    IN texts(IF isRange THEN Split(TrimPrefix(allowStr, sSrcIP), << "-" >>)
             ELSE << Trim(allowStr, Range(sSrcIP)) >>)

RECURSIVE aclTokens(_, _)
aclTokens(toks, allow) ==
    IF toks = <<>> THEN [ err |-> FALSE, allow |-> allow ]
    ELSE LET next(t) == IF t.err THEN [ err |-> TRUE, allow |-> <<>> ]
                        ELSE aclTokens(Tail(toks), Append(allow, t.net[1]))
         IN next(aclToken(Head(toks)))

\* makeACL(remapTxt): [err, allow]
makeACL(remapTxt) ==
    LET split(txt, remaps) ==
            IF HasPrefix(txt, sActionAllow)
            THEN IF Len(remaps) < 2 THEN [ err |-> TRUE, allow |-> <<>> ]
                 ELSE aclTokens(Tail(remaps), <<>>)
            ELSE [ err |-> FALSE, allow |-> <<>> ]
        joined(txt) == split(txt, Split(txt, << SP >>))
    IN joined(Join(Fields(remapTxt), << SP >>))

\* strings.TrimSpace, for the spaces the inputs can hold
TrimSpace(s) == Trim(s, { SP })

\* the body of makeAllowIP's loop
allowIPEntry(ip) ==
    LET withMask(t) == IF Contains(t, << "/" >>) THEN t
                       ELSE IF Contains(t, COLON) THEN t \o << "/","1","2","8" >>
                       ELSE t \o << "/","3","2" >>
    IN ParseCIDR(withMask(TrimSpace(ip)))

\* makeAllowIP(ips): [err, cidrs]
RECURSIVE makeAllowIP(_)
makeAllowIP(ips) ==
    IF ips = <<>> THEN [ err |-> FALSE, cidrs |-> <<>> ]
    ELSE LET both(c, rest) ==
                 IF c.err \/ rest.err THEN [ err |-> TRUE, cidrs |-> <<>> ]
                 ELSE [ err |-> FALSE, cidrs |-> << c.net[1] >> \o rest.cidrs ]
         IN both(allowIPEntry(Head(ips)), makeAllowIP(Tail(ips)))

sAllowIP == << "allow_ip" >>
sAllowIP6 == << "allow_ip6" >>
sAstatsConfig == << "astats.config" >>

\* the loop of getAllowIP: the comma separated values of the allow_ip parameters
RECURSIVE allowIPStrings(_)
allowIPStrings(params) ==
    IF params = <<>> THEN <<>>
    ELSE (IF /\ Head(params).Name \in { sAllowIP, sAllowIP6 }
             /\ Head(params).ConfigFile = sAstatsConfig
          THEN Split(Head(params).Value, << "," >>) ELSE <<>>)
         \o allowIPStrings(Tail(params))

\* getAllowIP(params)
getAllowIP(params) == makeAllowIP(allowIPStrings(params))

(***************************************************************************)
(* The header rewrite compiler.                                            *)
(***************************************************************************)
sDashHeader == << "-header" >>
sReturn == << "__RETURN__" >>
sLast == << "[L]" >>
sCond == << "cond" >>
sSetHeader == << "set", "-header" >>
sAddHeader == << "add", "-header" >>
sRmHeader == << "rm", "-header" >>
sResponseHook == << "%{SEND_RESPONSE_HDR_HOOK}" >>
sRequestHook == << "%{SEND_REQUEST_HDR_HOOK}" >>

\* web.ModHdrs{}
NoModHdrs == [ Set |-> <<>>, Drop |-> <<>> ]

ModHdrsError == [ err |-> TRUE, toClient |-> NoModHdrs, toOrigin |-> NoModHdrs ]

\* Fault: a condition line leaves the direction as it is.
modHdrsLineCondIgnored(parts, toOrigin, toClientList, toOriginList) ==
    LET hdr == [ Name |-> parts[2], Value |-> Join(Drop(parts, 2), << SP >>) ]
        locals(o, c, l) == [ err |-> FALSE, toOrigin |-> o, toClient |-> c,
                             toOriginList |-> l ]
        malformed == [ err |-> TRUE, toOrigin |-> toOrigin, toClient |-> NoModHdrs,
                       toOriginList |-> NoModHdrs ]
    IN IF Len(parts) = 0 THEN locals(toOrigin, toClientList, toOriginList)
       ELSE IF Len(parts) < 2 THEN malformed
       ELSE IF parts[1] = sCond
       THEN locals(toOrigin, toClientList, toOriginList)
       ELSE IF parts[1] = sSetHeader \/ parts[1] = sAddHeader
       THEN IF Len(parts) < 3 THEN malformed
            ELSE IF toOrigin
            THEN locals(toOrigin, toClientList,
                        [ toOriginList EXCEPT !.Set = Append(@, hdr) ])
            ELSE locals(toOrigin, [ toClientList EXCEPT !.Set = Append(@, hdr) ],
                        toOriginList)
       ELSE IF parts[1] = sRmHeader
       THEN IF toOrigin
            THEN locals(toOrigin, toClientList,
                        [ toOriginList EXCEPT !.Drop = Append(@, parts[2]) ])
            ELSE locals(toOrigin, [ toClientList EXCEPT !.Drop = Append(@, parts[2]) ],
                        toOriginList)
       ELSE locals(toOrigin, toClientList, toOriginList)

\* the body of the loop of makeModHdrs for one line, parts being its fields:
\* [err, toOrigin, toClient, toOriginList], the locals after the line
modHdrsLine(parts, toOrigin, toClientList, toOriginList) ==
    LET hdr == [ Name |-> parts[2], Value |-> Join(Drop(parts, 2), << SP >>) ]
        locals(o, c, l) == [ err |-> FALSE, toOrigin |-> o, toClient |-> c,
                             toOriginList |-> l ]
        malformed == [ err |-> TRUE, toOrigin |-> toOrigin, toClient |-> NoModHdrs,
                       toOriginList |-> NoModHdrs ]
    IN IF Len(parts) = 0 THEN locals(toOrigin, toClientList, toOriginList)
       ELSE IF Len(parts) < 2 THEN malformed
       ELSE IF parts[1] = sCond
       THEN locals(IF parts[2] = sRequestHook THEN TRUE
                   ELSE IF parts[2] = sResponseHook THEN FALSE
                   ELSE toOrigin,
                   toClientList, toOriginList)
       ELSE IF parts[1] = sSetHeader \/ parts[1] = sAddHeader
       THEN IF Len(parts) < 3 THEN malformed
            ELSE IF toOrigin
            THEN locals(toOrigin, toClientList,
                        [ toOriginList EXCEPT !.Set = Append(@, hdr) ])
            ELSE locals(toOrigin, [ toClientList EXCEPT !.Set = Append(@, hdr) ],
                        toOriginList)
       ELSE IF parts[1] = sRmHeader
       THEN IF toOrigin
            THEN locals(toOrigin, toClientList,
                        [ toOriginList EXCEPT !.Drop = Append(@, parts[2]) ])
            ELSE locals(toOrigin, [ toClientList EXCEPT !.Drop = Append(@, parts[2]) ],
                        toOriginList)
       ELSE locals(toOrigin, toClientList, toOriginList)

\* the loop of makeModHdrs over the lines of the edge header rewrite
RECURSIVE modHdrsLines(_, _, _, _)
modHdrsLines(lines, toOrigin, toClientList, toOriginList) ==
    IF lines = <<>>
    THEN [ err |-> FALSE, toClient |-> toClientList, toOrigin |-> toOriginList ]
    ELSE LET next(r) == IF r.err THEN ModHdrsError
                        ELSE modHdrsLines(Tail(lines), r.toOrigin, r.toClient,
                                          r.toOriginList)
         IN next(modHdrsLine(Fields(TrimSuffix(Head(lines), sLast)), toOrigin,
                             toClientList, toOriginList))

\* Fault: the direction starts as client-bound.
makeModHdrsClientFirst(edgeHRW, remapTXT) ==
    LET lines(hrw) ==
            IF Contains(hrw, sDashHeader)
            THEN modHdrsLines(Split(hrw, sReturn), FALSE, NoModHdrs, NoModHdrs)
            ELSE [ err |-> FALSE, toClient |-> NoModHdrs, toOrigin |-> NoModHdrs ]
    IN IF edgeHRW = <<>> /\ remapTXT = <<>>
       THEN [ err |-> FALSE, toClient |-> NoModHdrs, toOrigin |-> NoModHdrs ]
       ELSE lines(Join(Fields(edgeHRW), << SP >>))

\* makeModHdrs(edgeHRW, remapTXT): [err, toClient, toOrigin]
makeModHdrs(edgeHRW, remapTXT) ==
    LET lines(hrw) ==
            IF Contains(hrw, sDashHeader)
            THEN modHdrsLines(Split(hrw, sReturn), TRUE, NoModHdrs, NoModHdrs)
            ELSE [ err |-> FALSE, toClient |-> NoModHdrs, toOrigin |-> NoModHdrs ]
    IN IF edgeHRW = <<>> /\ remapTXT = <<>>
       THEN [ err |-> FALSE, toClient |-> NoModHdrs, toOrigin |-> NoModHdrs ]
       ELSE lines(Join(Fields(edgeHRW), << SP >>))

(***************************************************************************)
(* Rule assembly: the helpers of createRulesOld.                           *)
(***************************************************************************)
ProtocolHTTP == 0
ProtocolHTTPS == 1
ProtocolHTTPAndHTTPS == 2
ProtocolHTTPToHTTPS == 3

ProtocolStr(from, to) == [ From |-> from, To |-> to ]

\* Fault: a forced upgrade is expanded as the dual protocol is.
protocolStrsOfUpgradeAsDual(protocol) ==
    IF protocol = ProtocolHTTP THEN << ProtocolStr(sHTTP, sHTTP) >>
    ELSE IF protocol = ProtocolHTTPS THEN << ProtocolStr(sHTTPS, sHTTPS) >>
    ELSE IF protocol = ProtocolHTTPAndHTTPS \/ protocol = ProtocolHTTPToHTTPS
    THEN << ProtocolStr(sHTTP, sHTTP), ProtocolStr(sHTTPS, sHTTPS) >>
    ELSE <<>>

\* the switch of createRulesOld on the protocol of the delivery service
protocolStrsOf(protocol) ==
    IF protocol = ProtocolHTTP THEN << ProtocolStr(sHTTP, sHTTP) >>
    ELSE IF protocol = ProtocolHTTPS THEN << ProtocolStr(sHTTPS, sHTTPS) >>
    ELSE IF protocol = ProtocolHTTPAndHTTPS
    THEN << ProtocolStr(sHTTP, sHTTP), ProtocolStr(sHTTPS, sHTTPS) >>
    ELSE IF protocol = ProtocolHTTPToHTTPS
    THEN << ProtocolStr(sHTTP, sHTTPS), ProtocolStr(sHTTPS, sHTTPS) >>
    ELSE <<>>

LiteralPrefix == << ".", "*", "\\", "." >>
LiteralSuffix == << "\\", ".", ".", "*" >>

\* trimLiteralRegex(s): [s, literal, panic]; the slice expression panics when
\* the prefix and the suffix overlap
trimLiteralRegex(s) ==
    IF HasPrefix(s, LiteralPrefix) /\ HasSuffix(s, LiteralSuffix)
    THEN IF Len(LiteralPrefix) > Len(s) - Len(LiteralSuffix)
         THEN [ s |-> <<>>, literal |-> FALSE, panic |-> TRUE ]
         ELSE [ s |-> SubSeq(s, Len(LiteralPrefix) + 1, Len(s) - Len(LiteralSuffix)),
                literal |-> TRUE, panic |-> FALSE ]
    ELSE [ s |-> s, literal |-> FALSE, panic |-> FALSE ]

sSchemeSep == << ":", "/", "/" >>
sEdgeDot == << "e","d","g","e","." >>

\* Fault: the target host leads the from-expression whatever the type.
buildFromHostAlways(protocol, pattern, patternLiteralRegex, hostname, dsType, cdnDomain) ==
    IF ~patternLiteralRegex THEN protocol \o sSchemeSep \o pattern
    ELSE protocol \o sSchemeSep \o hostname \o DOT \o pattern \o DOT \o cdnDomain

\* buildFrom
buildFrom(protocol, pattern, patternLiteralRegex, hostname, dsType, cdnDomain) ==
    IF ~patternLiteralRegex THEN protocol \o sSchemeSep \o pattern
    ELSE IF HasPrefix(dsType, sHTTP)
    THEN protocol \o sSchemeSep \o hostname \o DOT \o pattern \o DOT \o cdnDomain
    ELSE protocol \o sSchemeSep \o sEdgeDot \o pattern \o DOT \o cdnDomain

\* Fault: every live type skips the mid tier, the national ones too.
dsTypeSkipsMidAnyLive(ttype) ==
    LET t == ToLower(ttype)
    IN \/ t = sHTTPNoCache \/ t = sHTTPLive \/ t = sDNSLive
       \/ Contains(t, sLive)

\* dsTypeSkipsMid
dsTypeSkipsMid(ttype) ==
    LET t == ToLower(ttype)
    IN \/ t = sHTTPNoCache \/ t = sHTTPLive \/ t = sDNSLive
       \/ (Contains(t, sLive) /\ ~Contains(t, sNatnl))

\* strconv.Itoa
Itoa(n) == IF n < 0 THEN << "-", ToString(-n) >> ELSE << ToString(n) >>

\* buildTo: [to, proxy]
buildTo(parentServer, protocol, originURI, dsType) ==
    [ to |-> originURI,
      proxy |-> IF ~dsTypeSkipsMid(dsType)
                THEN sHTTP \o sSchemeSep \o parentServer.HostName \o DOT
                     \o parentServer.DomainName \o COLON \o Itoa(parentServer.TCPPort)
                ELSE <<>> ]

\* url.Parse, as far as the proxy URLs built by buildTo go: it refuses a
\* space in the URL and a port that is not a number
urlParse(rawurl) ==
    [ err |-> \E k \in 1..Len(rawurl) : rawurl[k] = SP \/ rawurl[k] = "-",
      url |-> rawurl ]

DeliveryServiceQueryStringCacheAndRemap == 0
DeliveryServiceQueryStringNoCacheRemap == 1
DeliveryServiceQueryStringNoCacheNoRemap == 2

QueryStringRule(remap, cache) == [ Remap |-> remap, Cache |-> cache ]

\* getQueryStringRule: [err, rule]
getQueryStringRule(dsQstringIgnore) ==
    IF dsQstringIgnore = DeliveryServiceQueryStringCacheAndRemap
    THEN [ err |-> FALSE, rule |-> QueryStringRule(TRUE, TRUE) ]
    ELSE IF dsQstringIgnore = DeliveryServiceQueryStringNoCacheRemap
    THEN [ err |-> FALSE, rule |-> QueryStringRule(TRUE, TRUE) ]
    ELSE IF dsQstringIgnore = DeliveryServiceQueryStringNoCacheNoRemap
    THEN [ err |-> FALSE, rule |-> QueryStringRule(FALSE, FALSE) ]
    ELSE [ err |-> TRUE, rule |-> QueryStringRule(FALSE, FALSE) ]

\* DefaultRetryCodes(): an empty set of codes
DefaultRetryCodes == {}
DefaultRuleWeight == 1
DefaultRetryNum == 5
\* in milliseconds
DefaultTimeout == 5000
DefaultRuleConnectionClose == FALSE
DefaultRuleParentSelection == "consistent-hash"

sPathSeparator == << "/" >>
sWildcard == << "*", "." >>

\* getCertFileName
getCertFileName(cert, dir) ==
    dir \o sPathSeparator \o RemoveAll(cert.Hostname, sWildcard) \o << ".crt" >>

\* getCertKeyFileName
getCertKeyFileName(cert, dir) ==
    dir \o sPathSeparator \o RemoveAll(cert.Hostname, sWildcard) \o << ".key" >>

\* base64.StdEncoding.DecodeString, on the encoded texts of the snapshots
base64Decode(s) ==
    IF s = << "Y2VydA==" >> THEN [ err |-> FALSE, bytes |-> << "cert" >> ]
    ELSE IF s = << "a2V5" >> THEN [ err |-> FALSE, bytes |-> << "key" >> ]
    ELSE [ err |-> TRUE, bytes |-> <<>> ]

\* ioutil.WriteFile on the file system fs (a set of <<name, data>>); the file
\* system refuses the names in bad
writeFile(fs, bad, name, data) ==
    IF name \in bad THEN [ err |-> TRUE, fs |-> fs ]
    ELSE [ err |-> FALSE,
           fs |-> { f \in fs : f[1] # name } \cup { << name, data >> } ]

\* createCertificateFiles: [err, fs]
createCertificateFiles(cert, dir, fs, bad) ==
    LET keyWritten(w1, w2) == IF w2.err THEN [ err |-> TRUE, fs |-> w1.fs ]
                              ELSE [ err |-> FALSE, fs |-> w2.fs ]
        keyDecoded(w1, key) ==
            IF key.err THEN [ err |-> TRUE, fs |-> w1.fs ]
            ELSE keyWritten(w1, writeFile(w1.fs, bad, getCertKeyFileName(cert, dir),
                                          key.bytes))
        crtWritten(w1) == IF w1.err THEN [ err |-> TRUE, fs |-> fs ]
                          ELSE keyDecoded(w1, base64Decode(cert.Certificate.Key))
        crtDecoded(crt) ==
            IF crt.err THEN [ err |-> TRUE, fs |-> fs ]
            ELSE crtWritten(writeFile(fs, bad, getCertFileName(cert, dir), crt.bytes))
    IN crtDecoded(base64Decode(cert.Certificate.Crt))

\* remapdata.RemapRule{}: the rule before createRulesOld fills it in
EmptyRule ==
    [ Name |-> <<>>, From |-> <<>>, CertificateFile |-> <<>>,
      CertificateKeyFile |-> <<>>, To |-> <<>>, RetryNum |-> Nil, Timeout |-> Nil,
      RetryCodes |-> Nil, QueryString |-> QueryStringRule(FALSE, FALSE), DSCP |-> 0,
      ConnectionClose |-> FALSE, ParentSelection |-> Nil, Allow |-> Nil,
      Plugins |-> Nil, PluginsShared |-> Nil ]

\* web.RemapTextKey, the key of the remap text in PluginsShared
sRemapTextKey == "web.RemapTextKey"

\* Fault: the certificate files are named whatever the scheme.
bindsCertificateAnyScheme(protocolStr, hasCert) == hasCert

\* line 783: the rule refers to the certificate files
bindsCertificate(protocolStr, hasCert) == protocolStr.From = sHTTPS /\ hasCert

\* json.Marshal of a string
jsonString(s) == << "\"" >> \o s \o << "\"" >>

(***************************************************************************)
(* Rule assembly: the loops of createRulesOld.  c is the context of one    *)
(* delivery service: the locals of the loop body that the inner loops read. *)
(***************************************************************************)
\* Fault: a rule without parents is refused.
addParentsNeedsParent(rule, ps, protocolStr, c) ==
    [ err |-> ps = <<>>,
      rule |-> [ rule EXCEPT !.To = [ k \in 1..Len(ps) |-> [ URL |-> c.ds.OrgServerFQDN ] ] ] ]

\* the loop over the parents, for one rule: [err, rule]
RECURSIVE addParents(_, _, _, _)
addParents(rule, ps, protocolStr, c) ==
    IF ps = <<>> THEN [ err |-> FALSE, rule |-> rule ]
    ELSE
    LET ruleTo(to, proxyURL) ==
            [ URL |-> to, Weight |-> Some(DefaultRuleWeight),
              RetryNum |-> Some(DefaultRetryNum), ProxyURL |-> Some(proxyURL),
              RetryCodes |-> Some(DefaultRetryCodes), Timeout |-> Some(DefaultTimeout) ]
        parsed(bt, proxyURL) ==
            IF proxyURL.err THEN [ err |-> TRUE, rule |-> rule ]
            ELSE addParents(
              [ rule EXCEPT
                  !.To = Append(@, ruleTo(bt.to, proxyURL.url)),
                  !.RetryNum = Some(DefaultRetryNum),
                  !.Timeout = Some(DefaultTimeout),
                  !.RetryCodes = Some(DefaultRetryCodes),
                  !.QueryString = c.queryStringRule,
                  !.DSCP = c.ds.DSCP,
                  !.ConnectionClose = DefaultRuleConnectionClose,
                  !.ParentSelection = Some(DefaultRuleParentSelection),
                  !.Allow = Some(c.acl),
                  !.Plugins = Some([ modify_headers |-> c.toClientHeaders,
                                     modify_parent_request_headers |-> c.toOriginHeaders ]),
                  !.PluginsShared = Some(<< << sRemapTextKey,
                                               jsonString(c.ds.RemapText) >> >>) ],
              Tail(ps), protocolStr, c)
        built(bt) == parsed(bt, urlParse(bt.proxy))
    IN built(buildTo(Head(ps), protocolStr.To, c.ds.OrgServerFQDN, c.dsType))

\* the body of the loop over the regexes: [kind, rule], kind one of "ok",
\* "proxy" (the proxy URL of a parent does not parse) and "panic"
makeRule(pattern0, protocolStr, c) ==
    LET named(t) == [ EmptyRule EXCEPT
                        !.Name = c.ds.XMLID \o DOT \o protocolStr.From \o DOT
                                 \o protocolStr.To \o DOT \o t.s,
                        !.From = buildFrom(protocolStr.From, t.s, t.literal, c.hostname,
                                           c.dsType, c.cdn.DomainName),
                        !.PluginsShared = Some(<<>>) ]
        withCert(rule) ==
            IF bindsCertificate(protocolStr, c.hasCert)
            THEN [ rule EXCEPT
                     !.CertificateFile = getCertFileName(c.cert, c.certDir),
                     !.CertificateKeyFile = getCertKeyFileName(c.cert, c.certDir) ]
            ELSE rule
        filled(r) == IF r.err THEN [ kind |-> "proxy", rule |-> EmptyRule ]
                     ELSE [ kind |-> "ok", rule |-> r.rule ]
        trimmed(t) == IF t.panic THEN [ kind |-> "panic", rule |-> EmptyRule ]
                      ELSE filled(addParents(withCert(named(t)), c.parents,
                                             protocolStr, c))
    IN trimmed(trimLiteralRegex(pattern0))

\* Fault: the rules of the regexes are gathered last regex first.
RECURSIVE rulesOfRegexesLastFirst(_, _, _)
rulesOfRegexesLastFirst(regexes, protocolStr, c) ==
    IF regexes = <<>> THEN [ kind |-> "ok", rules |-> <<>> ]
    ELSE LET both(r, rest) ==
                 IF r.kind # "ok" THEN [ kind |-> r.kind, rules |-> <<>> ]
                 ELSE IF rest.kind # "ok" THEN rest
                 ELSE [ kind |-> "ok", rules |-> rest.rules \o << r.rule >> ]
         IN both(makeRule(Head(regexes).Pattern, protocolStr, c),
                 rulesOfRegexesLastFirst(Tail(regexes), protocolStr, c))

\* the loop over the regexes of the delivery service: [kind, rules]
RECURSIVE rulesOfRegexes(_, _, _)
rulesOfRegexes(regexes, protocolStr, c) ==
    IF regexes = <<>> THEN [ kind |-> "ok", rules |-> <<>> ]
    ELSE LET both(r, rest) ==
                 IF r.kind # "ok" THEN [ kind |-> r.kind, rules |-> <<>> ]
                 ELSE IF rest.kind # "ok" THEN rest
                 ELSE [ kind |-> "ok", rules |-> << r.rule >> \o rest.rules ]
         IN both(makeRule(Head(regexes).Pattern, protocolStr, c),
                 rulesOfRegexes(Tail(regexes), protocolStr, c))

\* Fault: only the first protocol pair gets its rules.
rulesOfFirstProtocol(protocolStrs, c) ==
    IF protocolStrs = <<>> THEN [ kind |-> "ok", rules |-> <<>> ]
    ELSE IF c.ds.XMLID \notin DOMAIN c.dsRegexes
    THEN [ kind |-> "noRegexes", rules |-> <<>> ]
    ELSE rulesOfRegexes(c.dsRegexes[c.ds.XMLID], Head(protocolStrs), c)

\* the loop over the protocol pairs of the delivery service: [kind, rules]
RECURSIVE rulesOfProtocols(_, _)
rulesOfProtocols(protocolStrs, c) ==
    IF protocolStrs = <<>> THEN [ kind |-> "ok", rules |-> <<>> ]
    ELSE IF c.ds.XMLID \notin DOMAIN c.dsRegexes
    THEN [ kind |-> "noRegexes", rules |-> <<>> ]
    ELSE LET both(r, rest) ==
                 IF r.kind # "ok" THEN r
                 ELSE IF rest.kind # "ok" THEN rest
                 ELSE [ kind |-> "ok", rules |-> r.rules \o rest.rules ]
         IN both(rulesOfRegexes(c.dsRegexes[c.ds.XMLID], Head(protocolStrs), c),
                 rulesOfProtocols(Tail(protocolStrs), c))

Msg(text, ds) == [ msg |-> text, ds |-> ds.XMLID ]

\* The ways the body of the loop over the delivery services ends without
\* rules: [kind, rules, err, log].  "error" is a return with an error, "skip"
\* a continue.
\* lines 723-725
ErrQueryStringRule(ds) ==
    [ kind |-> "error", rules |-> <<>>, err |-> "getting Query String Rule",
      log |-> <<>> ]

\* lines 728-730
ErrCDNNotFound(ds) ==
    [ kind |-> "error", rules |-> <<>>, err |-> "CDN not found", log |-> <<>> ]

\* Fault: an unknown type ends createRulesOld with an error.
AbortUnknownType(ds) ==
    [ kind |-> "error", rules |-> <<>>, err |-> "unknown type", log |-> <<>> ]

\* lines 756-759
SkipUnknownType(ds) ==
    [ kind |-> "skip", rules |-> <<>>, err |-> "",
      log |-> << Msg("skipping deliveryservice - unknown type", ds) >> ]

\* Fault: a header rewrite that does not compile only skips the delivery
\* service.
ContinueMakingHeaders(ds) ==
    [ kind |-> "skip", rules |-> <<>>, err |-> "",
      log |-> << Msg("skipping deliveryservice - headers", ds) >> ]

\* lines 762-764
ErrMakingHeaders(ds) ==
    [ kind |-> "error", rules |-> <<>>, err |-> "Making headers", log |-> <<>> ]

\* Fault: an ACL that does not compile ends createRulesOld with an error.
AbortUnsupportedACL(ds) ==
    [ kind |-> "error", rules |-> <<>>, err |-> "unsupported ACL", log |-> <<>> ]

\* lines 766-769
SkipUnsupportedACL(ds) ==
    [ kind |-> "skip", rules |-> <<>>, err |-> "",
      log |-> << Msg("skipping deliveryservice - unsupported ACL", ds) >> ]

\* Fault: a delivery service without regexes is skipped.
ContinueNoRegexes(ds) ==
    [ kind |-> "skip", rules |-> <<>>, err |-> "",
      log |-> << Msg("skipping deliveryservice - no regexes", ds) >> ]

\* lines 773-775
ErrNoRegexes(ds) ==
    [ kind |-> "error", rules |-> <<>>, err |-> "has no regexes", log |-> <<>> ]

\* lines 793-795
ErrProxyURL(ds) ==
    [ kind |-> "error", rules |-> <<>>, err |-> "error parsing proxy_url",
      log |-> <<>> ]

\* lines 746-753 of createRulesOld: the certificate files of the delivery
\* service are written, and a failure is printed: [fs, log]
certificateStep(ds, certMap, certDir, fs, bad) ==
    IF ds.Protocol = ProtocolHTTP THEN [ fs |-> fs, log |-> <<>> ]
    ELSE IF ds.XMLID \notin DOMAIN certMap
    THEN [ fs |-> fs, log |-> << Msg("has no certificate", ds) >> ]
    ELSE LET written(w) ==
                 [ fs |-> w.fs,
                   log |-> IF w.err THEN << Msg("failed to create certificate", ds) >>
                           ELSE <<>> ]
         IN written(createCertificateFiles(certMap[ds.XMLID], certDir, fs, bad))

\* lines 755-828 of createRulesOld, from the type check on: [kind, rules, log,
\* err]; kind is "rules", "skip", "error" or "panic"
assembleDS(ds, queryStringRule, hostname, ps, regexMap, cdn, certMap, certDir) ==
    LET c(dsType, hdrs, acl) ==
            [ ds |-> ds, dsType |-> dsType, hostname |-> hostname, cdn |-> cdn,
              hasCert |-> ds.XMLID \in DOMAIN certMap,
              cert |-> IF ds.XMLID \in DOMAIN certMap THEN certMap[ds.XMLID] ELSE Nil,
              certDir |-> certDir, parents |-> ps, dsRegexes |-> regexMap,
              queryStringRule |-> queryStringRule, acl |-> acl.allow,
              toClientHeaders |-> hdrs.toClient, toOriginHeaders |-> hdrs.toOrigin ]
        ruled(r) ==
            IF r.kind = "ok"
            THEN [ kind |-> "rules", rules |-> r.rules, err |-> "", log |-> <<>> ]
            ELSE IF r.kind = "panic"
            THEN [ kind |-> "panic", rules |-> <<>>, err |-> "", log |-> <<>> ]
            ELSE IF r.kind = "noRegexes" THEN ErrNoRegexes(ds)
            ELSE ErrProxyURL(ds)
        withACL(dsType, hdrs, acl) ==
            IF acl.err THEN SkipUnsupportedACL(ds)
            ELSE ruled(rulesOfProtocols(protocolStrsOf(ds.Protocol),
                                        c(dsType, hdrs, acl)))
        withHdrs(dsType, hdrs) ==
            IF hdrs.err THEN ErrMakingHeaders(ds)
            ELSE withACL(dsType, hdrs, makeACL(ds.RemapText))
        typed(dsType) ==
            IF ~HasPrefix(dsType, sHTTP) /\ ~HasPrefix(dsType, sDNS)
            THEN SkipUnknownType(ds)
            ELSE withHdrs(dsType, makeModHdrs(ds.EdgeHeaderRewrite, ds.RemapText))
    IN typed(ToLower(ds.Type))

\* the body of the loop of createRulesOld over the delivery services:
\* [kind, rules, fs, log, err]
compileDS(ds, hostname, ps, regexMap, cdnMap, certMap, certDir, fs, bad) ==
    LET assembled(crt, a) == [ kind |-> a.kind, rules |-> a.rules, fs |-> crt.fs,
                               log |-> crt.log \o a.log, err |-> a.err ]
        queried(q) ==
            IF q.err THEN assembled([ fs |-> fs, log |-> <<>> ], ErrQueryStringRule(ds))
            ELSE IF ds.CDNName \notin DOMAIN cdnMap
            THEN assembled([ fs |-> fs, log |-> <<>> ], ErrCDNNotFound(ds))
            ELSE assembled(certificateStep(ds, certMap, certDir, fs, bad),
                           assembleDS(ds, q.rule, hostname, ps, regexMap,
                                      cdnMap[ds.CDNName], certMap, certDir))
    IN queried(getQueryStringRule(ds.QStringIgnore))

(***************************************************************************)
(* The delivery service snapshots.  A profile describes one delivery       *)
(* service with its regexes and its certificate; a snapshot is a list of   *)
(* profiles and the parameters of the host.                                *)
(***************************************************************************)
TypeHTTP == << "H","T","T","P" >>
TypeDNSLive == << "D","N","S","_","L","I","V","E" >>
TypeAnyMap == << "A","N","Y","_","M","A","P" >>

Addr1 == << "1","0",".","0",".","0",".","1" >>
Addr6 == << "1","0",".","0",".","0",".","6" >>
AddrHost == << "1","9","2",".","1","6","8",".","1",".","5" >>

RemapNone == <<>>
\* @action=allow @src_ip=10.0.0.1-10.0.0.6 @src_ip=192.168.1.5
RemapAllow == sActionAllow \o << SP >> \o sSrcIP \o Addr1 \o << "-" >> \o Addr6
              \o << SP >> \o sSrcIP \o AddrHost
\* @action=allow @src_ip=any
RemapBad == sActionAllow \o << SP >> \o sSrcIP \o << "a","n","y" >>

HRWNone == <<>>
\* cond %{SEND_RESPONSE_HDR_HOOK} __RETURN__ set-header X-Test foo __RETURN__
\* cond %{SEND_REQUEST_HDR_HOOK} __RETURN__ rm-header X-Internal [L]
HRWGood == sCond \o << SP >> \o sResponseHook \o << SP >> \o sReturn \o << SP >>
           \o sSetHeader \o << SP, "X-Test", SP, "foo", SP >> \o sReturn \o << SP >>
           \o sCond \o << SP >> \o sRequestHook \o << SP >> \o sReturn \o << SP >>
           \o sRmHeader \o << SP, "X-Internal", SP >> \o sLast
\* set-header X-Test
HRWBad == sSetHeader \o << SP, "X-Test" >>

AllProfiles ==
    [ Type : { TypeHTTP, TypeDNSLive, TypeAnyMap },
      Protocol : { ProtocolHTTP, ProtocolHTTPS, ProtocolHTTPAndHTTPS, ProtocolHTTPToHTTPS },
      QStringIgnore : { DeliveryServiceQueryStringCacheAndRemap,
                        DeliveryServiceQueryStringNoCacheNoRemap,
                        DeliveryServiceQueryStringNoCacheNoRemap + 1 },
      CDNName : { CDN1, CDN2 },
      RemapText : { RemapNone, RemapAllow, RemapBad },
      EdgeHeaderRewrite : { HRWNone, HRWGood, HRWBad },
      cert : { "written", "none", "unwritable" },
      regexes : { "two", "one", "none" } ]

\* the default delivery service
DefaultProfile ==
    [ Type |-> TypeHTTP, Protocol |-> ProtocolHTTPAndHTTPS,
      QStringIgnore |-> DeliveryServiceQueryStringCacheAndRemap, CDNName |-> CDN1,
      RemapText |-> RemapAllow, EdgeHeaderRewrite |-> HRWGood, cert |-> "written",
      regexes |-> "two" ]

\* the number of fields in which p differs from the default delivery service
Dev(p) == Cardinality({ f \in DOMAIN p : p[f] # DefaultProfile[f] })

ProfilesByDev == [ d \in 0..MaxDev |-> { p \in AllProfiles : Dev(p) = d } ]

\* the lists of n profiles with at most b differences from the default
RECURSIVE ProfileLists(_, _)
ProfileLists(n, b) ==
    IF n = 0 THEN { <<>> }
    ELSE UNION { UNION { { << p >> \o r : r \in ProfileLists(n - 1, b - d) }
                         : p \in ProfilesByDev[d] }
                 : d \in 0..b }

sAllowValue == << "1","2","7",".","0",".","0",".","1",",",SP,
                  "1","0",".","0",".","0",".","0","/","8" >>
ParamsGood == << [ Name |-> sAllowIP, ConfigFile |-> sAstatsConfig, Value |-> sAllowValue ],
                 [ Name |-> << "location" >>, ConfigFile |-> << "remap.config" >>,
                   Value |-> << "/","o","p","t" >> ] >>
ParamsNone == <<>>
ParamsBad == << [ Name |-> sAllowIP6, ConfigFile |-> sAstatsConfig,
                  Value |-> << ":",":","1","/","2","0","0" >> ] >>

\* the snapshots: the lists of at most MaxDS profiles and the host parameters
\* that differ from the default in at most MaxDev places
SnapshotInputs ==
    UNION { { [ profiles |-> l, params |-> ParamsGood ] : l \in ProfileLists(n, MaxDev) }
            \cup { [ profiles |-> l, params |-> q ] :
                     l \in ProfileLists(n, MaxDev - 1), q \in { ParamsNone, ParamsBad } }
            : n \in 0..MaxDS }

XMLIDOf(k) == << "ds", ToString(k) >>

\* the tc.DeliveryService of the k-th profile
DeliveryService(k, p) ==
    [ XMLID |-> XMLIDOf(k), CDNName |-> p.CDNName, Protocol |-> p.Protocol,
      QStringIgnore |-> p.QStringIgnore, Type |-> p.Type,
      OrgServerFQDN |-> << "http://origin", ToString(k), ".example.org" >>,
      DSCP |-> 8 * k, EdgeHeaderRewrite |-> p.EdgeHeaderRewrite,
      RemapText |-> p.RemapText ]

\* the regexes of the k-th profile: a literal pattern and a true regex
RegexesOf(k, p) ==
    LET lit == [ Pattern |-> LiteralPrefix \o XMLIDOf(k) \o LiteralSuffix ]
        raw == [ Pattern |-> << "www", ToString(k), ".example.org" >> ]
    IN IF p.regexes = "two" THEN << lit, raw >> ELSE << lit >>

\* the tcv13.CDNSSLKeys of the k-th profile
CertOf(k) ==
    [ DeliveryService |-> XMLIDOf(k),
      Hostname |-> sWildcard \o XMLIDOf(k) \o << ".cdn1.example.net" >>,
      Certificate |-> [ Crt |-> << "Y2VydA==" >>, Key |-> << "a2V5" >> ] ]

\* -certdir: DefaultCertificateDir
certDir == << "/etc/grove/ssl" >>

CDNMap == [ n \in { CDN1 } |-> [ Name |-> CDN1, DomainName |-> << "cdn1.example.net" >> ] ]

NoResult ==
    [ err |-> "", Rules |-> <<>>, RetryCodes |-> Nil, Timeout |-> Nil,
      ParentSelection |-> Nil, Stats |-> Nil, Plugins |-> Nil ]

\* remap.RemapRules{} returned with an error
ErrorResult(e) == [ NoResult EXCEPT !.err = e ]

\* the other programs of the repository with nothing run
OthersIdle ==
    /\ disk = <<>>
    /\ tops = <<>>
    /\ grove = <<>>
    /\ mainv = <<>>
    /\ monitorConfigTS = <<>>
    /\ localStates = <<>>
    /\ subscribers = <<>>
    /\ riak = <<>>
    /\ response = <<>>

(***************************************************************************)
(* The steps of createRulesOldAPI and createRulesOld.                      *)
(***************************************************************************)
Init ==
    /\ host = HostEdge
    /\ servers \in ServerSnapshots
    /\ cachegroups \in CachegroupSnapshots
    /\ parents = <<>>
    /\ parentsErr = ""
    /\ dses = <<>>
    /\ dsRegexes = <<>>
    /\ cdns = <<>>
    /\ dsCerts = <<>>
    /\ hostParams = <<>>
    /\ badFiles = {}
    /\ files = {}
    /\ pc = "hostServer"
    /\ i = 0
    /\ rules = <<>>
    /\ allowedIPs = <<>>
    /\ result = NoResult
    /\ log = <<>>
    /\ run = 1
    /\ first = NoResult
    /\ arg = [ fn |-> "none" ]
    /\ ret = <<>>
    /\ OthersIdle

\* what Traffic Ops and the file system hand to the program
snapshot == << servers, cachegroups, dses, dsRegexes, cdns, dsCerts, hostParams,
               badFiles >>

\* the locals of createRulesOld
locals == << i, rules, allowedIPs, result, log >>

\* createRulesOldAPI, line 277: the host is looked up among the servers
LookupHost ==
    /\ pc = "hostServer"
    /\ pc' = IF host \in DOMAIN servers THEN "getParents" ELSE "exit"
    /\ UNCHANGED << host, snapshot, parents, parentsErr, files, locals, run, first, arg, ret, others >>

\* createRulesOldAPI, line 309: getParents, the runtime choosing the order in
\* which the servers map is ranged over
GetParents ==
    /\ pc = "getParents"
    /\ \E order \in Orders(DOMAIN servers) :
         LET returned(r) == /\ pc' = IF r.err # "" THEN "exit" ELSE "sameCDN"
                            /\ parents' = r.parents
                            /\ parentsErr' = r.err
         IN returned(getParents(host, servers, cachegroups, order))
    /\ UNCHANGED << host, snapshot, files, locals, run, first, arg, ret, others >>

\* createRulesOldAPI, line 326
FilterSameCDN ==
    /\ pc = "sameCDN"
    /\ parents' = filterParents(parents,
                                [ s \in Range(parents) |-> sameCDN(s, servers[host]) ])
    /\ pc' = "available"
    /\ UNCHANGED << host, snapshot, parentsErr, files, locals, run, first, arg, ret, others >>

\* createRulesOldAPI, line 327
FilterAvailable ==
    /\ pc = "available"
    /\ parents' = filterParents(parents,
                                [ s \in Range(parents) |-> serverAvailable(s) ])
    /\ pc' = "fetch"
    /\ UNCHANGED << host, snapshot, parentsErr, files, locals, run, first, arg, ret, others >>

\* createRulesOldAPI, lines 283-307 and 329-334: the delivery services, their
\* regexes, the CDNs, the host parameters and the certificates are read from
\* Traffic Ops.  None of these reads depends on the parents, and nothing reads
\* their results before createRulesOld is called, so they are one step here.
FetchSnapshot ==
    /\ pc = "fetch"
    /\ run = 1
    /\ \E snap \in SnapshotInputs :
         LET ps == snap.profiles
             K == 1..Len(ps)
         IN /\ dses' = [ k \in K |-> DeliveryService(k, ps[k]) ]
            /\ dsRegexes' = [ x \in { XMLIDOf(k) : k \in { n \in K : ps[n].regexes # "none" } }
                              |-> LET k == CHOOSE n \in K : XMLIDOf(n) = x
                                  IN RegexesOf(k, ps[k]) ]
            /\ dsCerts' = [ x \in { XMLIDOf(k) : k \in { n \in K : ps[n].cert # "none" } }
                            |-> CertOf(CHOOSE n \in K : XMLIDOf(n) = x) ]
            /\ badFiles' = { getCertKeyFileName(CertOf(k), certDir) :
                               k \in { n \in K : ps[n].cert = "unwritable" } }
            /\ hostParams' = snap.params
    /\ cdns' = CDNMap
    /\ pc' = "createRulesOld"
    /\ UNCHANGED << host, servers, cachegroups, parents, parentsErr, files, locals, run,
                    first, arg, ret, others >>

\* createRulesOld, lines 709-718
BeginRules ==
    /\ pc = "createRulesOld"
    /\ LET returned(a) ==
               IF a.err
               THEN /\ result' = ErrorResult("getting allowed IPs")
                    /\ pc' = "error"
                    /\ UNCHANGED << allowedIPs, i, rules >>
               ELSE /\ allowedIPs' = a.cidrs
                    /\ rules' = <<>>
                    /\ i' = 1
                    /\ pc' = "loop"
                    /\ UNCHANGED result
       IN returned(getAllowIP(hostParams))
    /\ UNCHANGED << host, snapshot, parents, parentsErr, files, log, run, first, arg, ret, others >>

\* createRulesOld, lines 720-829: one delivery service
CompileDS ==
    /\ pc = "loop"
    /\ i <= Len(dses)
    /\ LET compiled(r) ==
               /\ files' = r.fs
               /\ log' = log \o r.log
               /\ IF r.kind = "error"
                  THEN /\ result' = ErrorResult(r.err)
                       /\ pc' = "error"
                       /\ UNCHANGED << i, rules >>
                  ELSE IF r.kind = "panic"
                  THEN /\ pc' = "panic"
                       /\ UNCHANGED << i, rules, result >>
                  ELSE /\ rules' = rules \o r.rules
                       /\ i' = i + 1
                       /\ UNCHANGED << pc, result >>
       IN compiled(compileDS(dses[i], host, parents, dsRegexes, cdns, dsCerts, certDir,
                             files, badFiles))
    /\ UNCHANGED << host, snapshot, parents, parentsErr, allowedIPs, run, first, arg, ret, others >>

\* createRulesOld, lines 831-846
ReturnRules ==
    /\ pc = "loop"
    /\ i > Len(dses)
    /\ result' = [ err |-> "", Rules |-> rules, RetryCodes |-> Some(DefaultRetryCodes),
                   Timeout |-> Some(DefaultTimeout),
                   ParentSelection |-> Some(DefaultRuleParentSelection),
                   Stats |-> Some([ Allow |-> allowedIPs ]),
                   Plugins |-> Some([ modify_response_headers_global |->
                       [ Set |-> << [ Name |-> << "Server" >>,
                                      Value |-> << "Grove/0.33" >> ] >>,
                         Drop |-> <<>> ] ]) ]
    /\ pc' = "done"
    /\ UNCHANGED << host, snapshot, parents, parentsErr, files, i, rules, allowedIPs, log,
                    run, first, arg, ret, others >>

Next ==
    \/ LookupHost
    \/ GetParents
    \/ FilterSameCDN
    \/ FilterAvailable
    \/ FetchSnapshot
    \/ BeginRules
    \/ CompileDS
    \/ ReturnRules

Spec == Init /\ [][Next]_vars

(***************************************************************************)
(* Two runs over one snapshot.  grovetccfg is run again and again by its   *)
(* host; a second run that finds Traffic Ops unchanged reads the data the  *)
(* first run read.                                                         *)
(***************************************************************************)
\* main is started again after a run that wrote a configuration
Rerun ==
    /\ run = 1
    /\ pc = "done"
    /\ run' = 2
    /\ first' = result
    /\ parents' = <<>>
    /\ parentsErr' = ""
    /\ i' = 0
    /\ rules' = <<>>
    /\ allowedIPs' = <<>>
    /\ result' = NoResult
    /\ log' = <<>>
    /\ pc' = "hostServer"
    /\ UNCHANGED << host, snapshot, files, arg, ret, others >>

\* createRulesOldAPI, lines 283-307 and 329-334, in the second run: Traffic
\* Ops answers as it did in the first
Refetch ==
    /\ pc = "fetch"
    /\ run = 2
    /\ pc' = "createRulesOld"
    /\ UNCHANGED << host, snapshot, parents, parentsErr, files, locals, run, first, arg, ret, others >>

NextTwice == Next \/ Rerun \/ Refetch

SpecTwice == Init /\ [][NextTwice]_vars

(***************************************************************************)
(* getParents called on its own, with any hostname: createRulesOldAPI      *)
(* calls it only with a hostname it has found among the servers.           *)
(***************************************************************************)
Hostnames == { HostEdge, << "mid1" >>, << "edge9" >> }

\* getParents(hostname, servers, cachegroups)
CallGetParents ==
    /\ pc = "hostServer"
    /\ \E hostname \in Hostnames, order \in Orders(DOMAIN servers) :
         LET returned(r) == /\ parents' = r.parents
                            /\ parentsErr' = r.err
         IN /\ host' = hostname
            /\ returned(getParents(hostname, servers, cachegroups, order))
    /\ pc' = "returned"
    /\ UNCHANGED << snapshot, files, locals, run, first, arg, ret, others >>

NextCalls == Next \/ CallGetParents

SpecCalls == Init /\ [][NextCalls]_vars

(***************************************************************************)
(* makeACL called on its own.  The remap texts are written from a table of *)
(* addresses, each with the bytes it stands for, so that what makeACL      *)
(* returns can be compared with the addresses that were written.           *)
(***************************************************************************)
\* longest list of tokens after @action=allow
MaxTokens == 2

\* 10.0.0.1
A10_0_0_1 == [ text |-> << "1","0",".","0",".","0",".","1" >>,
               bytes |-> << 10, 0, 0, 1 >> ]
\* 10.0.0.6
A10_0_0_6 == [ text |-> << "1","0",".","0",".","0",".","6" >>,
               bytes |-> << 10, 0, 0, 6 >> ]
\* 10.0.1.0
A10_0_1_0 == [ text |-> << "1","0",".","0",".","1",".","0" >>,
               bytes |-> << 10, 0, 1, 0 >> ]
\* 192.168.1.5
A192_168_1_5 == [ text |-> << "1","9","2",".","1","6","8",".","1",".","5" >>,
                  bytes |-> << 192, 168, 1, 5 >> ]
\* 2001:db8::1
A2001_db8__1 == [ text |-> << "2","0","0","1",":","d","b","8",":",":","1" >>,
                  bytes |-> << 32, 1, 13, 184, 0, 0, 0, 0, 0, 0, 0, 0, 0, 0, 0, 1 >> ]
\* 2001:db8::c
A2001_db8__c == [ text |-> << "2","0","0","1",":","d","b","8",":",":","c" >>,
                  bytes |-> << 32, 1, 13, 184, 0, 0, 0, 0, 0, 0, 0, 0, 0, 0, 0, 12 >> ]

Addresses == { A10_0_0_1, A10_0_0_6, A10_0_1_0, A192_168_1_5, A2001_db8__1, A2001_db8__c }

sActionDeny == << "@action=deny" >>

\* the tokens: a range start-end, a single address, both bare or with the
\* @src_ip= prefix, and texts that are neither
RangeTokens ==
    { [ kind |-> "range", start |-> a, end |-> b,
        text |-> (IF pre THEN sSrcIP ELSE <<>>) \o a.text \o << "-" >> \o b.text ] :
      a \in Addresses, b \in Addresses, pre \in BOOLEAN }

SingleTokens ==
    { [ kind |-> "single", start |-> a, end |-> a,
        text |-> (IF pre THEN sSrcIP ELSE <<>>) \o a.text ] :
      a \in Addresses, pre \in BOOLEAN }

BadTexts ==
    { << "a","n","y" >>,
      << "1","0",".","0",".","0",".","2","5","6" >>,
      << "1","0",".","0",".","0",".","1","/","3","2" >>,
      << "1","0",".","0",".","0",".","1","-" >>,
      << "1","0",".","0",".","0",".","1","-","1","0",".","0",".","0",".","6","-","x" >>,
      << "=","1","0",".","0",".","0",".","1","=" >> }

BadTokens ==
    { [ kind |-> "bad", start |-> A10_0_0_1, end |-> A10_0_0_1, text |-> t ] :
      t \in BadTexts }

Tokens == RangeTokens \cup SingleTokens \cup BadTokens

\* the tokens that follow the first
LaterTokens ==
    { t \in Tokens :
        \/ t.kind = "range" /\ t.start = A10_0_0_1 /\ t.end = A10_0_0_6
        \/ t.kind = "single" /\ t.start = A192_168_1_5
        \/ t.kind = "bad" /\ t.text = << "a","n","y" >> }

RECURSIVE TokenLists(_)
TokenLists(n) ==
    IF n = 0 THEN { <<>> }
    ELSE { <<>> } \cup { << t >> : t \in Tokens }
         \cup { l \o << t >> : l \in TokenLists(n - 1) \ { <<>> }, t \in LaterTokens }

\* the remap text: the head and the tokens, one space between them, or two
\* and one in front when wide
RemapTextOf(head, toks, wide) ==
    LET sep == IF wide THEN << SP, SP >> ELSE << SP >>
        words == << head >> \o [ n \in 1..Len(toks) |-> toks[n].text ]
    IN (IF wide THEN << SP >> ELSE <<>>) \o Join(words, sep)

ACLInputs ==
    { [ fn |-> "makeACL", head |-> head, toks |-> toks,
        remapTxt |-> RemapTextOf(head, toks, wide) ] :
      head \in { sActionAllow, sActionDeny }, toks \in TokenLists(MaxTokens),
      wide \in BOOLEAN }

\* the program with nothing read and nothing run
Idle ==
    /\ host = HostEdge
    /\ servers = makeServersHostnameMap(<< EdgeServer >>)
    /\ cachegroups = makeCachegroupsNameMap(<< CacheGroupEdgeRoot >>)
    /\ parents = <<>>
    /\ parentsErr = ""
    /\ dses = <<>>
    /\ dsRegexes = <<>>
    /\ cdns = <<>>
    /\ dsCerts = <<>>
    /\ hostParams = <<>>
    /\ badFiles = {}
    /\ files = {}
    /\ i = 0
    /\ rules = <<>>
    /\ allowedIPs = <<>>
    /\ result = NoResult
    /\ log = <<>>
    /\ run = 1
    /\ first = NoResult

program == << host, snapshot, parents, parentsErr, files, locals, run, first >>

InitMakeACL ==
    /\ Idle
    /\ OthersIdle
    /\ pc = "makeACL"
    /\ arg \in ACLInputs
    /\ ret = <<>>

\* makeACL(remapTxt)
CallMakeACL ==
    /\ pc = "makeACL"
    /\ ret' = makeACL(arg.remapTxt)
    /\ pc' = "returned"
    /\ UNCHANGED << program, others, arg >>

SpecMakeACL == InitMakeACL /\ [][CallMakeACL]_vars

(***************************************************************************)
(* makeModHdrs called on its own.  The edge header rewrites are written    *)
(* from a table of lines, each with what it says: its kind ("cond", "set"  *)
(* for set-header and add-header, "rm", "other", "" for an empty line),    *)
(* the direction a condition names, the header, and its number of tokens.  *)
(***************************************************************************)
\* longest list of lines in an edge header rewrite
MaxLines == 3

Line(kind, dir, name, value, ntok, text) ==
    [ kind |-> kind, dir |-> dir, name |-> name, value |-> value, ntok |-> ntok,
      text |-> text ]

\* cond %{SEND_RESPONSE_HDR_HOOK}
CondResponse == Line("cond", "client", <<>>, <<>>, 2, sCond \o << SP >> \o sResponseHook)
\* cond %{SEND_REQUEST_HDR_HOOK}
CondRequest == Line("cond", "origin", <<>>, <<>>, 2, sCond \o << SP >> \o sRequestHook)
\* cond %{REMAP_PSEUDO_HOOK}
CondOther == Line("cond", "none", <<>>, <<>>, 2, sCond \o << SP, "%{REMAP_PSEUDO_HOOK}" >>)
\* cond %{SEND_RESPONSE_HDR_HOOK} set-header X-Test foo
CondSetOneLine ==
    Line("cond", "client", <<>>, <<>>, 5,
         sCond \o << SP >> \o sResponseHook \o << SP >> \o sSetHeader
         \o << SP, "X-Test", SP, "foo" >>)
\* set-header X-Test foo
SetXTest == Line("set", "", << "X-Test" >>, << "foo" >>, 3,
                 sSetHeader \o << SP, "X-Test", SP, "foo" >>)
\* add-header X-Cache a b
AddXCache == Line("set", "", << "X-Cache" >>, << "a", SP, "b" >>, 4,
                  sAddHeader \o << SP, "X-Cache", SP, "a", SP, "b" >>)
\* rm-header X-Internal [L]
RmInternal == Line("rm", "", << "X-Internal" >>, <<>>, 3,
                   sRmHeader \o << SP, "X-Internal", SP >> \o sLast)
\* set-status 404
SetStatus == Line("other", "", <<>>, <<>>, 2, << "set-status", SP, "404" >>)
\* set-header X-Test
ShortSet == Line("set", "", << "X-Test" >>, <<>>, 2, sSetHeader \o << SP, "X-Test" >>)
\* rm-header
ShortRm == Line("rm", "", <<>>, <<>>, 1, sRmHeader)
\* cond
ShortCond == Line("cond", "none", <<>>, <<>>, 1, sCond)
\* an empty line
EmptyLine == Line("", "", <<>>, <<>>, 0, <<>>)

Lines == { CondResponse, CondRequest, CondOther, CondSetOneLine, SetXTest, AddXCache,
           RmInternal, SetStatus, ShortSet, ShortRm, ShortCond, EmptyLine }

RECURSIVE LineLists(_)
LineLists(n) ==
    IF n = 0 THEN { <<>> }
    ELSE { <<>> } \cup { l \o << x >> : l \in LineLists(n - 1), x \in Lines }

\* the edge header rewrite: the lines with __RETURN__ between them
EdgeHRWOf(ls) ==
    Join([ n \in 1..Len(ls) |-> ls[n].text ], << SP >> \o sReturn \o << SP >>)

HRWInputs ==
    { [ fn |-> "makeModHdrs", lines |-> ls, edgeHRW |-> EdgeHRWOf(ls), remapTXT |-> txt ] :
      ls \in LineLists(MaxLines), txt \in { RemapNone, RemapAllow } }

InitMakeModHdrs ==
    /\ Idle
    /\ OthersIdle
    /\ pc = "makeModHdrs"
    /\ arg \in HRWInputs
    /\ ret = <<>>

\* makeModHdrs(edgeHRW, remapTXT)
CallMakeModHdrs ==
    /\ pc = "makeModHdrs"
    /\ ret' = makeModHdrs(arg.edgeHRW, arg.remapTXT)
    /\ pc' = "returned"
    /\ UNCHANGED << program, others, arg >>

SpecMakeModHdrs == InitMakeModHdrs /\ [][CallMakeModHdrs]_vars

(***************************************************************************)
(* The body of the loop of createRulesOld called on its own, for one       *)
(* delivery service.  The delivery services are written from tables of     *)
(* types and of regexes, each regex with what it stands for: whether it is *)
(* of the literal form and the text between the literal prefix and suffix. *)
(***************************************************************************)
\* longest list of parents
MaxParents == 2

TypeHTTPNoCache == << "H","T","T","P","_","N","O","_","C","A","C","H","E" >>
TypeHTTPLive == << "H","T","T","P","_","L","I","V","E" >>
TypeHTTPLiveNatnl == << "H","T","T","P","_","L","I","V","E","_","N","A","T","N","L" >>
TypeHTTPLiveExt == << "H","T","T","P","_","L","I","V","E","_","E","X","T" >>
TypeDNS == << "D","N","S" >>
TypeDNSLiveNatnl == << "D","N","S","_","L","I","V","E","_","N","A","T","N","L" >>

HTTPTypes == { TypeHTTP, TypeHTTPNoCache, TypeHTTPLive, TypeHTTPLiveNatnl, TypeHTTPLiveExt }
DNSTypes == { TypeDNS, TypeDNSLive, TypeDNSLiveNatnl }
DSTypes == HTTPTypes \cup DNSTypes \cup { TypeAnyMap }

Regex(pattern, literal, inner) ==
    [ Pattern |-> pattern, literal |-> literal, inner |-> inner ]

\* .*\.ds1\..*
RegexLiteral == Regex(LiteralPrefix \o XMLIDOf(1) \o LiteralSuffix, TRUE, XMLIDOf(1))
\* .*\.\..*
RegexLiteralEmpty == Regex(LiteralPrefix \o LiteralSuffix, TRUE, <<>>)
\* www1.example.org
RegexRaw == Regex(<< "www", "1", ".example.org" >>, FALSE, << "www", "1", ".example.org" >>)
\* .*\.ds1
RegexPrefixOnly == Regex(LiteralPrefix \o XMLIDOf(1), FALSE, LiteralPrefix \o XMLIDOf(1))
\* .*\..* : the literal prefix and the literal suffix share the middle
RegexOverlap == Regex(<< ".", "*", "\\", ".", ".", "*" >>, TRUE, <<>>)

RegexLists ==
    { << RegexLiteral, RegexRaw >>, << RegexRaw, RegexLiteralEmpty >>,
      << RegexPrefixOnly >>, << RegexLiteral, RegexOverlap >>, <<>> }

\* the lists of at most n parents, no parent twice
RECURSIVE ParentLists(_)
ParentLists(n) ==
    IF n = 0 THEN { <<>> }
    ELSE LET shorter == ParentLists(n - 1)
         IN shorter \cup UNION { { Append(l, m) : m \in { Mid1, Mid2, Mid3 } \ Range(l) } :
                                  l \in { x \in shorter : Len(x) = n - 1 } }

\* the arguments: a delivery service, its regexes and the parents
DSInputs ==
    { [ fn |-> "compileDS",
        ds |-> DeliveryService(1, [ DefaultProfile EXCEPT !.Type = t, !.Protocol = pr,
                                                          !.QStringIgnore = q ]),
        regexes |-> rx, parents |-> ps ] :
      t \in DSTypes,
      pr \in { ProtocolHTTP, ProtocolHTTPS, ProtocolHTTPAndHTTPS, ProtocolHTTPToHTTPS },
      q \in DeliveryServiceQueryStringCacheAndRemap
              ..(DeliveryServiceQueryStringNoCacheNoRemap + 1),
      rx \in RegexLists, ps \in ParentLists(MaxParents) }

InitCompileDS ==
    /\ Idle
    /\ OthersIdle
    /\ pc = "compileDS"
    /\ arg \in DSInputs
    /\ ret = <<>>

\* lines 721-828 of createRulesOld, for the delivery service of the arguments
CallCompileDS ==
    /\ pc = "compileDS"
    /\ ret' = compileDS(arg.ds, HostEdge, arg.parents,
                        [ x \in { arg.ds.XMLID } |->
                            [ k \in 1..Len(arg.regexes) |-> [ Pattern |-> arg.regexes[k].Pattern ] ] ],
                        CDNMap, [ x \in { arg.ds.XMLID } |-> CertOf(1) ], certDir, {}, {})
    /\ pc' = "returned"
    /\ UNCHANGED << program, others, arg >>

SpecCompileDS == InitCompileDS /\ [][CallCompileDS]_vars

(***************************************************************************)
(* trimLiteralRegex called on its own, with the texts over the characters  *)
(* of the literal prefix and suffix and a letter, bare and after the       *)
(* literal prefix and before the literal suffix.                           *)
(***************************************************************************)
\* longest text between the ends of a pattern
MaxPattern == 3

PatternChars == { ".", "*", "\\", "a" }

\* the texts of at most n characters
RECURSIVE Patterns(_)
Patterns(n) ==
    IF n = 0 THEN { <<>> }
    ELSE LET shorter == Patterns(n - 1)
         IN shorter \cup { Append(t, ch) : t \in { x \in shorter : Len(x) = n - 1 },
                                           ch \in PatternChars }

InitTrimLiteralRegex ==
    /\ Idle
    /\ OthersIdle
    /\ pc = "trimLiteralRegex"
    /\ arg \in { [ fn |-> "trimLiteralRegex", s |-> head \o t \o tail ] :
                   head \in { <<>>, LiteralPrefix }, t \in Patterns(MaxPattern),
                   tail \in { <<>>, LiteralSuffix } }
    /\ ret = <<>>

\* trimLiteralRegex(s)
CallTrimLiteralRegex ==
    /\ pc = "trimLiteralRegex"
    /\ ret' = trimLiteralRegex(arg.s)
    /\ pc' = "returned"
    /\ UNCHANGED << program, others, arg >>

SpecTrimLiteralRegex == InitTrimLiteralRegex /\ [][CallTrimLiteralRegex]_vars

(***************************************************************************)
(* WriteAndBackup, one system call a step.  A path is a directory and a    *)
(* base name; the disk is the files, path -> contents, and the             *)
(* directories.  Every system call fails or succeeds as the system         *)
(* chooses, and a write that fails may have written part of its bytes.     *)
(* arg.before is the history of the call: what the target held when the    *)
(* call was made, Nil when there was no such file.                         *)
(***************************************************************************)
\* longest contents of a file, in bytes
MaxBytes == 2

\* cfg.RemapRulesFile
remapPath == [ dir |-> << "etc", "grove" >>, base |-> << "remap.json" >> ]

\* Fault: the new contents are written over the target itself.
NewFilenameInPlace(path) == path

\* NewFilename
NewFilename(path) == [ path EXCEPT !.base = @ \o << ".new" >> ]

\* lines 102-105 of BackupFile, now being time.Now() in the format of the
\* file names
backupDirOf(path) == Append(path.dir, "remap_history")
backupPathOf(path, now) ==
    [ dir |-> backupDirOf(path), base |-> path.base \o << ".", now, ".gz" >> ]

\* gzip.NewWriter: a header, then the bytes
gzip(bts) == << "gzip" >> \o bts

\* the beginnings of bts that are not all of it
PartsOf(bts) == { SubSeq(bts, 1, k) : k \in 0..(Len(bts) - 1) }

Bytes(b, n) == [ k \in 1..n |-> b ]

Exists(path) == path \in DOMAIN disk.files

\* the disk with contents bts in the file at path
WithFile(path, bts) ==
    [ disk EXCEPT !.files = [ q \in DOMAIN @ \cup { path } |->
                                IF q = path THEN bts ELSE @[q] ] ]

\* WriteAndBackup returns err
WriteAndBackupReturns(err) ==
    /\ ret' = err
    /\ pc' = "written"

sNow == "2006-01-02T15_04_05"

\* the file an earlier run that failed has left behind
leftoverPath == [ dir |-> remapPath.dir, base |-> << "remap.json", ".new" >> ]

InitWriteAndBackup ==
    /\ Idle
    /\ pc = "BackupFile"
    /\ ret = <<>>
    /\ tops = <<>> /\ grove = <<>> /\ mainv = <<>> /\ monitorConfigTS = <<>>
    /\ localStates = <<>> /\ subscribers = <<>> /\ riak = <<>> /\ response = <<>>
    /\ \E before \in { Nil } \cup { Some(Bytes("o", n)) : n \in 0..MaxBytes },
          bts \in { Bytes("n", n) : n \in 0..MaxBytes },
          leftover \in { Nil } \cup { Some(Bytes("x", n)) : n \in 0..1 },
          history \in BOOLEAN :
         /\ arg = [ fn |-> "WriteAndBackup", path |-> remapPath, bts |-> bts,
                    before |-> before ]
         /\ disk = [ files |->
                       [ q \in (IF before = Nil THEN {} ELSE { remapPath })
                               \cup (IF leftover = Nil THEN {} ELSE { leftoverPath })
                         |-> IF q = remapPath THEN before[1] ELSE leftover[1] ],
                     dirs |-> { remapPath.dir }
                              \cup (IF history THEN { backupDirOf(remapPath) } ELSE {}) ]

unwritten == << program, arg, tops, grove, mainv, monitorConfigTS, localStates, subscribers,
                riak, response >>

\* BackupFile, line 97: os.Stat
Stat ==
    /\ pc = "BackupFile"
    /\ pc' = IF Exists(arg.path) THEN "os.MkdirAll" ELSE "WriteNewFile"
    /\ UNCHANGED << unwritten, disk, ret >>

\* BackupFile, line 107: os.MkdirAll, whose error is dropped
MkdirAll ==
    /\ pc = "os.MkdirAll"
    /\ \E ok \in BOOLEAN :
         disk' = IF ok THEN [ disk EXCEPT !.dirs = @ \cup { backupDirOf(arg.path) } ]
                 ELSE disk
    /\ pc' = "CopyAndGzipFile"
    /\ UNCHANGED << unwritten, ret >>

\* CopyAndGzipFile, lines 70-74: os.Open
Open ==
    /\ pc = "CopyAndGzipFile"
    /\ \E ok \in BOOLEAN :
         IF ok /\ Exists(arg.path)
         THEN pc' = "os.Create" /\ UNCHANGED ret
         ELSE WriteAndBackupReturns("backing up file: opening source file")
    /\ UNCHANGED << unwritten, disk >>

\* CopyAndGzipFile, lines 75-79: os.Create
CreateBackup ==
    /\ pc = "os.Create"
    /\ \E ok \in BOOLEAN :
         IF ok /\ backupDirOf(arg.path) \in disk.dirs
         THEN /\ disk' = WithFile(backupPathOf(arg.path, sNow), <<>>)
              /\ pc' = "io.Copy"
              /\ UNCHANGED ret
         ELSE /\ WriteAndBackupReturns("backing up file: creating destination file")
              /\ UNCHANGED disk
    /\ UNCHANGED unwritten

\* CopyAndGzipFile, lines 81-85: io.Copy through the gzip writer, which holds
\* back the end of its output until it is closed
Copy ==
    /\ pc = "io.Copy"
    /\ \E part \in PartsOf(gzip(disk.files[arg.path])), ok \in BOOLEAN :
         /\ disk' = WithFile(backupPathOf(arg.path, sNow), part)
         /\ IF ok THEN pc' = "gzip.Close" /\ UNCHANGED ret
            ELSE WriteAndBackupReturns("backing up file: copying source to destination")
    /\ UNCHANGED unwritten

\* CopyAndGzipFile, lines 86-88: Close of the gzip writer
CloseGzip ==
    /\ pc = "gzip.Close"
    /\ \E ok \in BOOLEAN :
         IF ok
         THEN /\ disk' = WithFile(backupPathOf(arg.path, sNow), gzip(disk.files[arg.path]))
              /\ pc' = "Sync"
              /\ UNCHANGED ret
         ELSE /\ WriteAndBackupReturns("backing up file: closing destination gzip writer")
              /\ UNCHANGED disk
    /\ UNCHANGED unwritten

\* CopyAndGzipFile, lines 89-92: Sync
SyncBackup ==
    /\ pc = "Sync"
    /\ \E ok \in BOOLEAN :
         IF ok THEN pc' = "WriteNewFile" /\ UNCHANGED ret
         ELSE WriteAndBackupReturns("backing up file: flushing copy to destination")
    /\ UNCHANGED << unwritten, disk >>

\* WriteNewFile, lines 120-124: os.Create
CreateNew ==
    /\ pc = "WriteNewFile"
    /\ \E ok \in BOOLEAN :
         IF ok
         THEN /\ disk' = WithFile(NewFilename(arg.path), <<>>)
              /\ pc' = "f.Write"
              /\ UNCHANGED ret
         ELSE /\ WriteAndBackupReturns("writing new file: creating file")
              /\ UNCHANGED disk
    /\ UNCHANGED unwritten

\* WriteNewFile, lines 126-128: f.Write
Write ==
    /\ pc = "f.Write"
    /\ \/ /\ disk' = WithFile(NewFilename(arg.path), arg.bts)
          /\ pc' = "f.Sync"
          /\ UNCHANGED ret
       \/ \E part \in PartsOf(arg.bts) :
            /\ disk' = WithFile(NewFilename(arg.path), part)
            /\ WriteAndBackupReturns("writing new file: writing file")
    /\ UNCHANGED unwritten

\* WriteNewFile, lines 129-132: f.Sync
SyncNew ==
    /\ pc = "f.Sync"
    /\ \E ok \in BOOLEAN :
         IF ok THEN pc' = "os.Rename" /\ UNCHANGED ret
         ELSE WriteAndBackupReturns("writing new file: flushing file")
    /\ UNCHANGED << unwritten, disk >>

\* WriteAndBackup, lines 143-146: os.Rename, which is atomic
Rename ==
    /\ pc = "os.Rename"
    /\ \E ok \in BOOLEAN :
         IF ok
         THEN /\ disk' = [ disk EXCEPT
                             !.files = [ q \in (DOMAIN @ \cup { arg.path })
                                               \ { NewFilename(arg.path) } |->
                                           IF q = arg.path THEN @[NewFilename(arg.path)]
                                           ELSE @[q] ] ]
              /\ WriteAndBackupReturns("")
         ELSE /\ WriteAndBackupReturns("copying new file to real location")
              /\ UNCHANGED disk
    /\ UNCHANGED unwritten

NextWriteAndBackup ==
    \/ Stat \/ MkdirAll \/ Open \/ CreateBackup \/ Copy \/ CloseGzip \/ SyncBackup
    \/ CreateNew \/ Write \/ SyncNew \/ Rename

SpecWriteAndBackup == InitWriteAndBackup /\ [][NextWriteAndBackup]_vars

(***************************************************************************)
(* The monitor config manager: monitorConfigListen and                     *)
(* getHealthPeerStatPollIntervals.  A value of the Config map is a number  *)
(* (float64) or a string; a time.Duration is a number of nanoseconds.      *)
(***************************************************************************)
\* most monitor configs received
MaxConfigs == 2

time_Millisecond == 1000000

Float64(n) == [ type |-> "float64", f |-> n ]
String(t) == [ type |-> "string", s |-> t ]

\* trafficOpsHealthPollIntervalToDuration and its like
trafficOpsHealthPollIntervalToDuration(t) == t * time_Millisecond
trafficOpsHealthConnectionTimeoutToDuration(t) == t * time_Millisecond

sHealthInterval == "health.polling.interval"
sPeersInterval == "peers.polling.interval"
sStatInterval == "stat.polling.interval"

\* the type assertion x.(float64): [v, ok], v the zero value when it fails
AsFloat64(x) == IF x.type = "float64" THEN [ v |-> x.f, ok |-> TRUE ]
                ELSE [ v |-> 0, ok |-> FALSE ]

NoIntervals == [ err |-> TRUE, health |-> 0, peer |-> 0, stat |-> 0 ]

\* getHealthPeerStatPollIntervals: [err, health, peer, stat]
getHealthPeerStatPollIntervals(monitorConfig) ==
    LET Config == monitorConfig.Config
        health == AsFloat64(Config[sHealthInterval])
        statExists == sStatInterval \in DOMAIN Config
        \* line 146: the health value stands in for a missing stat value
        statI == IF statExists THEN Config[sStatInterval] ELSE Config[sHealthInterval]
        \* line 148: the number is taken from it here, and line 151 comes after
        statInt == AsFloat64(statI).v
    IN IF sHealthInterval \notin DOMAIN Config THEN NoIntervals
       ELSE IF ~health.ok THEN NoIntervals
       ELSE IF sPeersInterval \notin DOMAIN Config THEN NoIntervals
       ELSE IF ~AsFloat64(Config[sPeersInterval]).ok THEN NoIntervals
       ELSE [ err |-> FALSE,
              health |-> IF ~statExists
                         THEN trafficOpsHealthPollIntervalToDuration(health.v) \div 4
                         ELSE trafficOpsHealthPollIntervalToDuration(health.v),
              peer |-> trafficOpsHealthPollIntervalToDuration(
                           AsFloat64(Config[sPeersInterval]).v),
              stat |-> trafficOpsHealthPollIntervalToDuration(statInt) ]

\* strings.NewReplacer(pairs...).Replace(t): at each place the first pair
\* whose old text starts there is applied
RECURSIVE Replace(_, _)
Replace(t, pairs) ==
    IF t = <<>> THEN <<>>
    ELSE LET hits == { k \in 1..Len(pairs) : HasPrefix(t, pairs[k][1]) }
             hit == CHOOSE k \in hits : \A j \in hits : k <= j
         IN IF hits = {} THEN << Head(t) >> \o Replace(Tail(t), pairs)
            ELSE pairs[hit][2] \o Replace(SubSeq(t, Len(pairs[hit][1]) + 1, Len(t)), pairs)

\* the key -> value map of the pairs in a sequence of << key, value >>
MapOf(entries) ==
    [ k \in { entries[n][1] : n \in 1..Len(entries) } |->
        entries[CHOOSE n \in 1..Len(entries) : entries[n][1] = k][2] ]

\* to.TrafficMonitorConfigMap{}
NoMonitorConfig ==
    [ TrafficServer |-> <<>>, Config |-> <<>>, TrafficMonitor |-> <<>>,
      DeliveryService |-> <<>>, Profile |-> <<>> ]

TrafficServer(h, status, ip) ==
    [ HostName |-> h, Status |-> status, Profile |-> "EDGE1", IP |-> ip,
      InterfaceName |-> "eth0" ]

TrafficServerMaps ==
    { MapOf(<<>>),
      MapOf(<< << "cache1", TrafficServer("cache1", "REPORTED", "10.0.0.11") >> >>),
      MapOf(<< << "cache1", TrafficServer("cache1", "ONLINE", "10.0.0.11") >>,
               << "cache2", TrafficServer("cache2", "OFFLINE", "10.0.0.12") >> >>) }

TrafficMonitors ==
    MapOf(<< << "tm1", [ HostName |-> "tm1", Status |-> "ONLINE", IP |-> "10.0.0.1",
                         Port |-> 80 ] >>,
             << "tm2", [ HostName |-> "tm2", Status |-> "ONLINE", IP |-> "10.0.0.2",
                         Port |-> 80 ] >>,
             << "tm3", [ HostName |-> "tm3", Status |-> "OFFLINE", IP |-> "10.0.0.3",
                         Port |-> 80 ] >> >>)

DeliveryServiceMaps ==
    { MapOf(<<>>), MapOf(<< << "ds1", [ XMLID |-> "ds1" ] >> >>) }

\* http://${hostname}/_astats?application=system&inf.name=${interface_name}
Profiles ==
    MapOf(<< << "EDGE1",
                [ Parameters |->
                    [ HealthPollingURL |-> << "http://", "${hostname}", "/_astats?",
                                              "application=", "system", "&inf.name=",
                                              "${interface_name}" >>,
                      HealthConnectionTimeout |-> 2000 ] ] >> >>)

\* the Config maps: each interval a number, a string, or missing
ConfigMaps ==
    { MapOf(h \o p \o st) :
        h \in { <<>>, << << sHealthInterval, Float64(2000) >> >>,
                << << sHealthInterval, String("2s") >> >> },
        p \in { <<>>, << << sPeersInterval, Float64(1000) >> >>,
                << << sPeersInterval, String("1s") >> >> },
        st \in { <<>>, << << sStatInterval, Float64(600) >> >>,
                 << << sStatInterval, String("600ms") >> >> } }

MonitorConfigs ==
    { [ TrafficServer |-> ts, Config |-> c, TrafficMonitor |-> TrafficMonitors,
        DeliveryService |-> ds, Profile |-> Profiles ] :
      ts \in TrafficServerMaps, c \in ConfigMaps, ds \in DeliveryServiceMaps }

\* staticAppData.Hostname
sHostname == "tm1"

InitMonitorConfigListen ==
    /\ Idle
    /\ pc = "range monitorConfigPollChan"
    /\ arg = [ fn |-> "monitorConfigListen", received |-> 0,
               monitorConfig |-> NoMonitorConfig ]
    /\ ret = <<>>
    /\ disk = <<>> /\ tops = <<>> /\ grove = <<>> /\ mainv = <<>> /\ riak = <<>>
    /\ response = <<>>
    /\ monitorConfigTS = NoMonitorConfig
    /\ localStates = [ Caches |-> <<>>, Deliveryservice |-> <<>> ]
    /\ subscribers = [ statURLSubscriber |-> <<>>, healthURLSubscriber |-> <<>>,
                       peerURLSubscriber |-> <<>>, cachesChangeSubscriber |-> <<>> ]

unmonitored == << program, disk, tops, grove, mainv, riak, response >>

\* lines 180-190: a monitor config arrives; it is set, and its intervals are
\* read
ReceiveMonitorConfig ==
    /\ pc = "range monitorConfigPollChan"
    /\ arg.received < MaxConfigs
    /\ \E monitorConfig \in MonitorConfigs :
         LET read(r) == /\ ret' = r
                        /\ pc' = IF r.err THEN "range monitorConfigPollChan"
                                 ELSE "range monitorConfig.TrafficServer"
         IN /\ monitorConfigTS' = monitorConfig
            /\ arg' = [ arg EXCEPT !.received = @ + 1, !.monitorConfig = monitorConfig ]
            /\ read(getHealthPeerStatPollIntervals(monitorConfig))
    /\ UNCHANGED << unmonitored, localStates, subscribers >>

\* lines 192-223, for all the servers: the caches set in localStates
SeededCaches(monitorConfig, Caches) ==
    LET srvs == { monitorConfig.TrafficServer[k] : k \in DOMAIN monitorConfig.TrafficServer }
        online == { srv.HostName : srv \in { x \in srvs : x.Status = "ONLINE" } }
        polled == { srv.HostName : srv \in { x \in srvs : x.Status \notin { "ONLINE", "OFFLINE" } } }
    IN [ c \in DOMAIN Caches \cup online \cup polled |->
           IF c \in online THEN [ IsAvailable |-> TRUE ]
           ELSE IF c \in DOMAIN Caches THEN Caches[c]
           ELSE [ IsAvailable |-> FALSE ] ]

\* lines 209-216: the health URL of a server
HealthURL(monitorConfig, srv) ==
    Replace(IF srv.Profile \in DOMAIN monitorConfig.Profile
            THEN monitorConfig.Profile[srv.Profile].Parameters.HealthPollingURL
            ELSE <<>>,
            << << << "${hostname}" >>, << srv.IP >> >>,
               << << "${interface_name}" >>, << srv.InterfaceName >> >>,
               << << "application=", "system" >>, << "application=", "plugin.remap" >> >>,
               << << "application=" >>, << "application=", "plugin.remap" >> >> >>)

\* lines 218-222: the poll configs of the servers that are polled; stat
\* tells the stat URLs from the health URLs
PollConfigs(monitorConfig, stat) ==
    LET srvs == { x \in { monitorConfig.TrafficServer[k] :
                            k \in DOMAIN monitorConfig.TrafficServer } :
                    x.Status \notin { "ONLINE", "OFFLINE" } }
        of(h) == CHOOSE x \in srvs : x.HostName = h
        timeout(srv) ==
            trafficOpsHealthConnectionTimeoutToDuration(
                IF srv.Profile \in DOMAIN monitorConfig.Profile
                THEN monitorConfig.Profile[srv.Profile].Parameters.HealthConnectionTimeout
                ELSE 0)
    IN [ h \in { x.HostName : x \in srvs } |->
           [ URL |-> IF stat
                     THEN Replace(HealthURL(monitorConfig, of(h)),
                                  << << << "application=", "plugin.remap" >>,
                                        << "application=" >> >> >>)
                     ELSE HealthURL(monitorConfig, of(h)),
             Timeout |-> timeout(of(h)) ] ]

\* lines 225-235: the URLs of the peers
PeerURLs(monitorConfig) ==
    LET tms == { x \in { monitorConfig.TrafficMonitor[k] :
                           k \in DOMAIN monitorConfig.TrafficMonitor } :
                   x.HostName # sHostname /\ x.Status = "ONLINE" }
        of(h) == CHOOSE x \in tms : x.HostName = h
    IN [ h \in { x.HostName : x \in tms } |->
           [ URL |-> << "http://", of(h).IP, ":", ToString(of(h).Port),
                        "/publish/CrStates?raw" >> ] ]

\* lines 192-261: the config in hand is applied
ApplyMonitorConfig ==
    /\ pc = "range monitorConfig.TrafficServer"
    /\ LET monitorConfig == arg.monitorConfig
           seeded == SeededCaches(monitorConfig, localStates.Caches)
       IN /\ subscribers' =
               [ statURLSubscriber |->
                   Append(subscribers.statURLSubscriber,
                          [ Urls |-> PollConfigs(monitorConfig, TRUE), Interval |-> ret.stat ]),
                 healthURLSubscriber |->
                   Append(subscribers.healthURLSubscriber,
                          [ Urls |-> PollConfigs(monitorConfig, FALSE),
                            Interval |-> ret.health ]),
                 peerURLSubscriber |->
                   Append(subscribers.peerURLSubscriber,
                          [ Urls |-> PeerURLs(monitorConfig), Interval |-> ret.peer ]),
                 cachesChangeSubscriber |-> Append(subscribers.cachesChangeSubscriber, <<>>) ]
          /\ localStates' =
               [ Caches |-> [ c \in DOMAIN seeded \cap DOMAIN monitorConfig.TrafficServer |->
                                seeded[c] ],
                 Deliveryservice |->
                   [ d \in { monitorConfig.DeliveryService[k].XMLID :
                               k \in DOMAIN monitorConfig.DeliveryService }
                           \cap DOMAIN monitorConfig.DeliveryService |->
                       IF d \in DOMAIN localStates.Deliveryservice
                       THEN localStates.Deliveryservice[d]
                       ELSE [ IsAvailable |-> FALSE, DisabledLocations |-> <<>> ] ] ]
    /\ pc' = "range monitorConfigPollChan"
    /\ UNCHANGED << unmonitored, monitorConfigTS, arg, ret >>

NextMonitorConfigListen == ReceiveMonitorConfig \/ ApplyMonitorConfig

SpecMonitorConfigListen == InitMonitorConfigListen /\ [][NextMonitorConfigListen]_vars

(***************************************************************************)
(* main, one request or system call a step, with Traffic Ops acting        *)
(* beside it.  tops is what Traffic Ops holds for the host: its two flags, *)
(* and queued and revals, the numbers of updates queued and of changes of  *)
(* the reval flag so far.  The data of Traffic Ops change only when an     *)
(* update is queued, so rules stand for the data they were created from:   *)
(* the rules created after n updates are written n.  grove is the config   *)
(* the service has loaded.                                                 *)
(***************************************************************************)
\* most updates queued, and most changes of the reval flag
MaxQueued == 2
MaxRevals == 1

\* Fault: the reval flag is posted clear whatever it was.
revalPendingPostValClear(revalPending) == "UpdateStatusClear"

\* clearUpdatePending, lines 160-165
revalPendingPostVal(revalPending) ==
    IF revalPending = FALSE THEN "UpdateStatusClear" ELSE "UpdateStatusPending"

\* json.Marshal of the rules created from the data after n updates
Marshal(n) == << ToString(n) >>

\* the disk before main runs: the remap file of the data before any update
diskAtStart ==
    [ files |-> [ q \in { remapPath } |-> Marshal(0) ], dirs |-> { remapPath.dir } ]

InitMain ==
    /\ Idle
    /\ pc = "main"
    /\ ret = <<>>
    /\ monitorConfigTS = <<>> /\ localStates = <<>> /\ subscribers = <<>>
    /\ riak = <<>> /\ response = <<>>
    /\ disk = diskAtStart
    /\ grove = [ loaded |-> Marshal(0) ]
    /\ \E ignoreUpdateFlag \in BOOLEAN, UpdatePending \in BOOLEAN, RevalPending \in BOOLEAN :
         /\ arg = [ fn |-> "main", ignoreUpdateFlag |-> ignoreUpdateFlag ]
         /\ tops = [ UpdatePending |-> UpdatePending, RevalPending |-> RevalPending,
                     queued |-> IF UpdatePending THEN 1 ELSE 0, revals |-> 0 ]
    /\ mainv = [ needsUpdate |-> Nil, revalPendingStatus |-> FALSE, revalsSeen |-> 0,
                 rules |-> Nil, posted |-> Nil, code |-> Nil ]

unrun == << program, monitorConfigTS, localStates, subscribers, riak, response >>

\* os.Exit(code), the locals being m
Exit(m, code) ==
    /\ pc' = "os.Exit"
    /\ mainv' = [ m EXCEPT !.code = Some(code) ]

\* lines 186-190: to.LoginWithAgent
LoginWithAgent ==
    /\ pc = "main"
    /\ \E ok \in BOOLEAN :
         IF ok THEN pc' = "hasUpdatePending" /\ UNCHANGED mainv
         ELSE Exit(mainv, 1)
    /\ UNCHANGED << unrun, arg, ret, disk, tops, grove >>

\* lines 192-203, and hasUpdatePending: the flags are read, unless they are
\* ignored
hasUpdatePending ==
    /\ pc = "hasUpdatePending"
    /\ IF arg.ignoreUpdateFlag
       THEN pc' = "createRulesOldAPI" /\ UNCHANGED mainv
       ELSE \E ok \in BOOLEAN :
              LET m == [ mainv EXCEPT !.needsUpdate = Some(tops.UpdatePending),
                                      !.revalPendingStatus = tops.RevalPending,
                                      !.revalsSeen = tops.revals ]
              IN IF ~ok THEN Exit(mainv, 1)
                 ELSE IF ~tops.UpdatePending THEN Exit(m, 0)
                 ELSE pc' = "createRulesOldAPI" /\ mainv' = m
    /\ UNCHANGED << unrun, arg, ret, disk, tops, grove >>

\* lines 205-214: createRulesOldAPI, from the data Traffic Ops holds now
createRulesOldAPI ==
    /\ pc = "createRulesOldAPI"
    /\ \E ok \in BOOLEAN :
         IF ok THEN /\ pc' = "remap.RemapRulesToJSON"
                    /\ mainv' = [ mainv EXCEPT !.rules = Some(tops.queued) ]
         ELSE Exit(mainv, 1)
    /\ UNCHANGED << unrun, arg, ret, disk, tops, grove >>

\* lines 216-240: remap.RemapRulesToJSON, json.Marshal and GetRemapPath, and
\* the call of WriteAndBackup
RemapRulesToJSON ==
    /\ pc = "remap.RemapRulesToJSON"
    /\ \E err \in { "", "Error creating JSON Remap Rules", "Error marshalling rules JSON",
                    "Error getting remap config path" } :
         IF err = ""
         THEN /\ arg' = [ fn |-> "main", ignoreUpdateFlag |-> arg.ignoreUpdateFlag,
                          path |-> remapPath, bts |-> Marshal(mainv.rules[1]) ]
              /\ pc' = "BackupFile"
              /\ UNCHANGED mainv
         ELSE Exit(mainv, 1) /\ UNCHANGED arg
    /\ UNCHANGED << unrun, ret, disk, tops, grove >>

\* lines 242-250: WriteAndBackup has returned; service grove reload
Reload ==
    /\ pc = "written"
    /\ IF ret # ""
       THEN Exit(mainv, 1) /\ UNCHANGED grove
       ELSE \E ok \in BOOLEAN :
              IF ok THEN /\ grove' = [ loaded |-> disk.files[arg.path] ]
                         /\ pc' = "clearUpdatePending"
                         /\ UNCHANGED mainv
              ELSE Exit(mainv, 2) /\ UNCHANGED grove
    /\ UNCHANGED << unrun, arg, ret, disk, tops >>

\* lines 252-259, and clearUpdatePending: the update flag is posted clear
\* and the reval flag as it was read, unless the flags are ignored.  posted
\* keeps what was posted, what the reval flag was then, and whether it had
\* been changed since it was read.
clearUpdatePending ==
    /\ pc = "clearUpdatePending"
    /\ IF arg.ignoreUpdateFlag
       THEN Exit(mainv, 0) /\ UNCHANGED tops
       ELSE \E ok \in BOOLEAN :
              LET post == revalPendingPostVal(mainv.revalPendingStatus)
              IN IF ok
                 THEN /\ tops' = [ tops EXCEPT !.UpdatePending = FALSE,
                                               !.RevalPending = (post = "UpdateStatusPending") ]
                      /\ Exit([ mainv EXCEPT !.posted =
                                  Some([ reval |-> post, was |-> tops.RevalPending,
                                         changed |-> tops.revals > mainv.revalsSeen ]) ], 0)
                 ELSE Exit(mainv, 3) /\ UNCHANGED tops
    /\ UNCHANGED << unrun, arg, ret, disk, grove >>

\* Traffic Ops: an update is queued for the host
QueueUpdate ==
    /\ tops.queued < MaxQueued
    /\ tops' = [ tops EXCEPT !.UpdatePending = TRUE, !.queued = @ + 1 ]
    /\ UNCHANGED << unrun, pc, arg, ret, disk, grove, mainv >>

\* Traffic Ops: the reval flag of the host is changed
SetRevalPending ==
    /\ tops.revals < MaxRevals
    /\ tops' = [ tops EXCEPT !.RevalPending = ~@, !.revals = @ + 1 ]
    /\ UNCHANGED << unrun, pc, arg, ret, disk, grove, mainv >>

NextMain ==
    \/ LoginWithAgent \/ hasUpdatePending \/ createRulesOldAPI \/ RemapRulesToJSON
    \/ NextWriteAndBackup
    \/ Reload \/ clearUpdatePending
    \/ QueueUpdate \/ SetRevalPending

SpecMain == InitMain /\ [][NextMain]_vars

(***************************************************************************)
(* The handlers of the SSL keys of a delivery service that check tenancy,  *)
(* a request a step.  riak is the key store: its objects, and calls, the   *)
(* calls the request in hand has made of fetchObjectValues, saveObject,    *)
(* deleteObject and generateSSLCertificate.  response is what the request  *)
(* is answered: a status and a body.  What the request, the database, the  *)
(* key store and tenant.HasTenant hold for the handler is drawn with \E;   *)
(* a handler stops at the first call that fails, so one value, fails,      *)
(* names that call.                                                        *)
(***************************************************************************)
\* most requests handled
MaxRequests == 2

\* tc.ApiErrorType
ApiErrorTypes ==
    { "tc.NoError", "tc.SystemError", "tc.DataConflictError", "tc.DataMissingError",
      "tc.ForbiddenError" }

\* what tenant.HasTenant may return: hasAccess and apiStatus
HasTenantResults == [ hasAccess : BOOLEAN, apiStatus : ApiErrorTypes ]

\* handleErr(status, err)
handleErr(status, err) == [ status |-> status, body |-> << "alerts", "error", err >> ]

\* w.Header().Set and fmt.Fprintf(w, "%s", body), the status being 200
Fprintf(body) == [ status |-> 200, body |-> body ]

\* tc.CreateAlerts(level, text), marshalled
CreateAlerts(level, text) == << "alerts", level, text >>

\* the check of tenancy of every handler: the answer it gives, or Nil when
\* the handler goes on (the switch has no default)
tenancy(t) ==
    IF ~t.hasAccess
    THEN CASE t.apiStatus = "tc.SystemError" -> Some(handleErr(500, "tenancy"))
           [] t.apiStatus = "tc.DataMissingError" -> Some(handleErr(404, "tenancy"))
           [] t.apiStatus = "tc.ForbiddenError" -> Some(handleErr(403, "tenancy"))
           [] OTHER -> Nil
    ELSE Nil

\* the key of the keys of xmlID in version
KeyOf(xmlID, version) == << xmlID, "-", IF version = "" THEN "latest" ELSE version >>

XMLIDs == { "ds1" }
Versions == { "", "1" }

\* the keys of xmlID as they are stored
keysJSON(xmlID) == << "keys", xmlID >>

InitHandlers ==
    /\ Idle
    /\ pc = "ServeHTTP"
    /\ arg = [ fn |-> "ServeHTTP", handled |-> 0, handler |-> "",
               hasAccess |-> TRUE, apiStatus |-> "tc.NoError" ]
    /\ ret = <<>>
    /\ disk = <<>> /\ tops = <<>> /\ grove = <<>> /\ mainv = <<>>
    /\ monitorConfigTS = <<>> /\ localStates = <<>> /\ subscribers = <<>>
    /\ response = <<>>
    /\ \E stored \in SUBSET { KeyOf(x, v) : x \in XMLIDs, v \in Versions } :
         riak = [ objects |-> [ k \in stored |-> keysJSON(k[1]) ], calls |-> <<>> ]

unserved == << program, ret, disk, tops, grove, mainv, monitorConfigTS, localStates,
               subscribers >>

\* the handler of the name answers w, having made the calls of the key
\* store, which holds the objects afterwards; t is what HasTenant returned,
\* when it was called
Served(handler, t, w, calls, objects) ==
    /\ arg.handled < MaxRequests
    /\ arg' = [ fn |-> "ServeHTTP", handled |-> arg.handled + 1, handler |-> handler,
                hasAccess |-> t.hasAccess, apiStatus |-> t.apiStatus ]
    /\ response' = w
    /\ riak' = [ objects |-> objects, calls |-> calls ]
    /\ pc' = "ServeHTTP"
    /\ UNCHANGED unserved

\* HasTenant was not called
NotAsked == [ hasAccess |-> TRUE, apiStatus |-> "tc.NoError" ]

\* the objects without the one of the key
Without(objects, key) == [ k \in DOMAIN objects \ { key } |-> objects[k] ]

\* the objects with value under the key
With(objects, key, value) ==
    [ k \in DOMAIN objects \cup { key } |-> IF k = key THEN value ELSE objects[k] ]

\* getDeliveryServiceSSLKeysByXMLID: [err, respBytes, calls]
getDeliveryServiceSSLKeysByXMLID(xmlID, version, fails) ==
    LET key == KeyOf(xmlID, version)
    IN IF fails \in { "getRiakCluster", "cluster.Start" }
       THEN [ err |-> fails, respBytes |-> <<>>, calls |-> <<>> ]
       ELSE IF fails = "fetchObjectValues"
       THEN [ err |-> fails, respBytes |-> <<>>, calls |-> << "fetchObjectValues" >> ]
       ELSE IF key \notin DOMAIN riak.objects
       THEN [ err |-> IF fails = "json.Marshal" THEN fails ELSE "",
              respBytes |-> IF fails = "json.Marshal" THEN <<>>
                            ELSE CreateAlerts("info", "no object found for the specified key"),
              calls |-> << "fetchObjectValues" >> ]
       ELSE [ err |-> IF fails \in { "json.Unmarshal", "json.Marshal" } THEN fails ELSE "",
              respBytes |-> IF fails \in { "json.Unmarshal", "json.Marshal" } THEN <<>>
                            ELSE << "response" >> \o riak.objects[key],
              calls |-> << "fetchObjectValues" >> ]

\* addDeliveryServiceSSLKeysHandler
addDeliveryServiceSSLKeysHandler ==
    \E xmlID \in XMLIDs, t \in HasTenantResults,
       fails \in { "", "cfg.RiakEnabled", "auth.GetCurrentUser", "ioutil.ReadAll",
                   "json.Unmarshal", "verifyAndEncodeCertificate", "json.Marshal",
                   "getRiakCluster", "cluster.Start", "saveObject" } :
      LET answer(asked, w, calls, objects) ==
              Served("addDeliveryServiceSSLKeysHandler", asked, w, calls, objects)
      IN IF fails = "cfg.RiakEnabled"
         THEN answer(NotAsked, handleErr(503, fails), <<>>, riak.objects)
         ELSE IF fails \in { "auth.GetCurrentUser", "ioutil.ReadAll" }
         THEN answer(NotAsked, handleErr(500, fails), <<>>, riak.objects)
         ELSE IF fails = "json.Unmarshal"
         THEN answer(NotAsked, handleErr(400, fails), <<>>, riak.objects)
         ELSE IF tenancy(t) # Nil
         THEN answer(t, tenancy(t)[1], <<>>, riak.objects)
         ELSE IF fails \in { "verifyAndEncodeCertificate", "json.Marshal" }
         THEN answer(t, handleErr(400, fails), <<>>, riak.objects)
         ELSE IF fails \in { "getRiakCluster", "cluster.Start" }
         THEN answer(t, handleErr(500, fails), <<>>, riak.objects)
         ELSE IF fails = "saveObject"
         THEN answer(t, handleErr(500, fails), << "saveObject" >>, riak.objects)
         ELSE answer(t, Fprintf(keysJSON(xmlID)), << "saveObject" >>,
                     With(riak.objects, << xmlID >>, keysJSON(xmlID)))

\* deleteDeliveryServiceSSLKeysHandler
deleteDeliveryServiceSSLKeysHandler ==
    \E xmlID \in XMLIDs, version \in Versions, t \in HasTenantResults,
       fails \in { "", "cfg.RiakEnabled", "auth.GetCurrentUser", "api.GetPathParams",
                   "getRiakCluster", "cluster.Start", "fetchObjectValues", "deleteObject",
                   "json.Marshal" } :
      LET answer(asked, w, calls, objects) ==
              Served("deleteDeliveryServiceSSLKeysHandler", asked, w, calls, objects)
          key == KeyOf(xmlID, version)
      IN IF fails = "cfg.RiakEnabled"
         THEN answer(NotAsked, handleErr(503, fails), <<>>, riak.objects)
         ELSE IF fails \in { "auth.GetCurrentUser", "api.GetPathParams" }
         THEN answer(NotAsked, handleErr(500, fails), <<>>, riak.objects)
         ELSE IF tenancy(t) # Nil
         THEN answer(t, tenancy(t)[1], <<>>, riak.objects)
         ELSE IF fails \in { "getRiakCluster", "cluster.Start" }
         THEN answer(t, handleErr(500, fails), <<>>, riak.objects)
         ELSE IF fails = "fetchObjectValues"
         THEN answer(t, handleErr(500, fails), << "fetchObjectValues" >>, riak.objects)
         ELSE IF key \notin DOMAIN riak.objects
         THEN answer(t,
                     IF fails = "json.Marshal"
                     THEN [ status |-> 500, body |-> << "Internal Server Error" >> ]
                     ELSE Fprintf(CreateAlerts("info", "not deleted, no object found to delete")),
                     << "fetchObjectValues" >>, riak.objects)
         ELSE IF fails = "deleteObject"
         THEN answer(t, handleErr(500, fails), << "fetchObjectValues", "deleteObject" >>,
                     riak.objects)
         ELSE answer(t,
                     IF fails = "json.Marshal"
                     THEN [ status |-> 500, body |-> << "Internal Server Error" >> ]
                     ELSE Fprintf(CreateAlerts("success", "object deleted")),
                     << "fetchObjectValues", "deleteObject" >>, Without(riak.objects, key))

\* generateDeliveryServiceSSLKeysHandler, which writes nothing when it
\* succeeds
generateDeliveryServiceSSLKeysHandler ==
    \E t \in HasTenantResults,
       fails \in { "", "cfg.RiakEnabled", "ioutil.ReadAll", "json.Unmarshal",
                   "auth.GetCurrentUser", "generateSSLCertificate" } :
      LET answer(asked, w, calls) ==
              Served("generateDeliveryServiceSSLKeysHandler", asked, w, calls, riak.objects)
      IN IF fails = "cfg.RiakEnabled"
         THEN answer(NotAsked, handleErr(503, fails), <<>>)
         ELSE IF fails = "ioutil.ReadAll"
         THEN answer(NotAsked, handleErr(500, fails), <<>>)
         ELSE IF fails = "json.Unmarshal"
         THEN answer(NotAsked, handleErr(400, fails), <<>>)
         ELSE IF fails = "auth.GetCurrentUser"
         THEN answer(NotAsked, handleErr(500, fails), <<>>)
         ELSE IF tenancy(t) # Nil
         THEN answer(t, tenancy(t)[1], <<>>)
         ELSE IF fails = "generateSSLCertificate"
         THEN answer(t, handleErr(500, fails), << "generateSSLCertificate" >>)
         ELSE answer(t, Fprintf(<<>>), << "generateSSLCertificate" >>)

\* getDeliveryServiceSSLKeysByHostNameHandler; cdn and ds are what the
\* database holds for the names taken from the host name: a row or none
getDeliveryServiceSSLKeysByHostNameHandler ==
    \E xmlID \in XMLIDs, version \in Versions, t \in HasTenantResults,
       cdnIDValid \in BOOLEAN, xmlIDStrValid \in BOOLEAN,
       fails \in { "", "cfg.RiakEnabled", "auth.GetCurrentUser", "api.GetPathParams",
                   "getCDNIDByDomainname", "getXMLID", "getRiakCluster", "cluster.Start",
                   "fetchObjectValues", "json.Unmarshal", "json.Marshal" } :
      LET answer(asked, w, calls) ==
              Served("getDeliveryServiceSSLKeysByHostNameHandler", asked, w, calls,
                     riak.objects)
          got == getDeliveryServiceSSLKeysByXMLID(xmlID, version, fails)
      IN IF fails = "cfg.RiakEnabled"
         THEN answer(NotAsked, handleErr(503, fails), <<>>)
         ELSE IF fails \in { "auth.GetCurrentUser", "api.GetPathParams",
                             "getCDNIDByDomainname" }
         THEN answer(NotAsked, handleErr(500, fails), <<>>)
         ELSE IF ~cdnIDValid
         THEN answer(NotAsked,
                     IF fails = "json.Marshal" THEN Fprintf(<<>>)
                     ELSE Fprintf(CreateAlerts("info", "a cdn does not exist for the domain")),
                     <<>>)
         ELSE IF fails = "getXMLID"
         THEN answer(NotAsked, handleErr(500, fails), <<>>)
         ELSE IF ~xmlIDStrValid
         THEN answer(NotAsked,
                     IF fails = "json.Marshal" THEN handleErr(500, fails)
                     ELSE Fprintf(CreateAlerts("info", "a delivery service does not exist")),
                     <<>>)
         ELSE IF tenancy(t) # Nil
         THEN answer(t, tenancy(t)[1], <<>>)
         ELSE IF got.err # ""
         THEN answer(t, handleErr(500, got.err), got.calls)
         ELSE answer(t, Fprintf(got.respBytes), got.calls)

\* getDeliveryServiceSSLKeysByXMLIDHandler
getDeliveryServiceSSLKeysByXMLIDHandler ==
    \E xmlID \in XMLIDs, version \in Versions, t \in HasTenantResults,
       fails \in { "", "cfg.RiakEnabled", "auth.GetCurrentUser", "api.GetPathParams",
                   "getRiakCluster", "cluster.Start", "fetchObjectValues",
                   "json.Unmarshal", "json.Marshal" } :
      LET answer(asked, w, calls) ==
              Served("getDeliveryServiceSSLKeysByXMLIDHandler", asked, w, calls,
                     riak.objects)
          got == getDeliveryServiceSSLKeysByXMLID(xmlID, version, fails)
      IN IF fails = "cfg.RiakEnabled"
         THEN answer(NotAsked, handleErr(503, fails), <<>>)
         ELSE IF fails \in { "auth.GetCurrentUser", "api.GetPathParams" }
         THEN answer(NotAsked, handleErr(500, fails), <<>>)
         ELSE IF tenancy(t) # Nil
         THEN answer(t, tenancy(t)[1], <<>>)
         ELSE IF got.err # ""
         THEN answer(t, handleErr(500, got.err), got.calls)
         ELSE answer(t, Fprintf(got.respBytes), got.calls)

NextHandlers ==
    \/ addDeliveryServiceSSLKeysHandler
    \/ deleteDeliveryServiceSSLKeysHandler
    \/ generateDeliveryServiceSSLKeysHandler
    \/ getDeliveryServiceSSLKeysByHostNameHandler
    \/ getDeliveryServiceSSLKeysByXMLIDHandler

SpecHandlers == InitHandlers /\ [][NextHandlers]_vars

(***************************************************************************)
(* Properties.  The predicates below describe a delivery service of the   *)
(* snapshot by what the helpers of createRulesOld make of its fields.      *)
(***************************************************************************)
DSIndex == 1..Len(dses)

QStringOK(ds) == ~getQueryStringRule(ds.QStringIgnore).err

CDNKnown(ds) == ds.CDNName \in DOMAIN cdns

KnownType(ds) ==
    HasPrefix(ToLower(ds.Type), sHTTP) \/ HasPrefix(ToLower(ds.Type), sDNS)

HeadersFail(ds) == makeModHdrs(ds.EdgeHeaderRewrite, ds.RemapText).err

ACLFails(ds) == makeACL(ds.RemapText).err

HasRegexes(ds) == ds.XMLID \in DOMAIN dsRegexes

\* some parent gets a proxy URL that url.Parse refuses
ProxyFails(ds) ==
    \E k \in 1..Len(parents) :
        urlParse(buildTo(parents[k], sHTTP, ds.OrgServerFQDN, ToLower(ds.Type)).proxy).err

\* the delivery service passes the look-ups that come before the type check
LookedUp(ds) == QStringOK(ds) /\ CDNKnown(ds)

\* the delivery service gets as far as the call of makeACL
ReachesACL(ds) == LookedUp(ds) /\ KnownType(ds) /\ ~HeadersFail(ds)

\* createRulesOld leaves the delivery service out and goes on
Skipped(ds) == LookedUp(ds) /\ (~KnownType(ds) \/ (~HeadersFail(ds) /\ ACLFails(ds)))

\* createRulesOld stops at the delivery service for a reason the parents have
\* no part in
FatalInput(ds) ==
    \/ ~LookedUp(ds)
    \/ /\ KnownType(ds)
       /\ \/ HeadersFail(ds)
          \/ ~ACLFails(ds) /\ protocolStrsOf(ds.Protocol) # <<>> /\ ~HasRegexes(ds)

\* createRulesOld stops at the delivery service
Fatal(ds) ==
    \/ FatalInput(ds)
    \/ /\ ReachesACL(ds) /\ ~ACLFails(ds) /\ protocolStrsOf(ds.Protocol) # <<>>
       /\ HasRegexes(ds) /\ dsRegexes[ds.XMLID] # <<>> /\ ProxyFails(ds)

\* the rules in rs that were built for the delivery service: their names
\* start with its XML id and a dot
RulesOf(ds, rs) ==
    LET mine(r) == HasPrefix(r.Name, ds.XMLID \o DOT)
    IN SelectSeq(rs, mine)

\* the delivery service a rule was built for
DSOfRule(rule) == dses[CHOOSE k \in DSIndex : HasPrefix(rule.Name, dses[k].XMLID \o DOT)]

\* one rule for each protocol pair and regex
ExpectedCount(ds) == Len(protocolStrsOf(ds.Protocol)) * Len(dsRegexes[ds.XMLID])

\* the rules built so far are those of the delivery services before the
\* i-th that were not skipped, one for each protocol pair and regex
RulesSoFarComplete ==
    \A k \in DSIndex :
        k < i => Len(RulesOf(dses[k], rules))
                   = IF Skipped(dses[k]) THEN 0 ELSE ExpectedCount(dses[k])

FromHTTPS(rule) == HasPrefix(rule.From, sHTTPS \o sSchemeSep)

PairFromHTTPS(protocolStr) == protocolStr.From = sHTTPS

\* C1: two runs over the same snapshot return the same result, the order of
\* the 'to' destinations of every rule included, whatever the order in which
\* the servers map is ranged over.
C1_SameRulesBothRuns == (run = 2 /\ pc = "done") => result = first

\* C2: every rule built so far carries the policy of its delivery service:
\* retry count, timeout, retry codes, query string rule, DSCP, connection
\* close false, parent selection, the compiled ACL and the compiled headers.
C2_UniformPolicy ==
    \A k \in 1..Len(rules) :
        LET rule == rules[k]
            ds == DSOfRule(rule)
        IN /\ rule.RetryNum = Some(DefaultRetryNum)
           /\ rule.Timeout = Some(DefaultTimeout)
           /\ rule.RetryCodes = Some(DefaultRetryCodes)
           /\ rule.QueryString = getQueryStringRule(ds.QStringIgnore).rule
           /\ rule.DSCP = ds.DSCP
           /\ rule.ConnectionClose = FALSE
           /\ rule.ParentSelection = Some(DefaultRuleParentSelection)
           /\ rule.Allow = Some(makeACL(ds.RemapText).allow)
           /\ rule.Plugins
                = Some([ modify_headers |->
                           makeModHdrs(ds.EdgeHeaderRewrite, ds.RemapText).toClient,
                         modify_parent_request_headers |->
                           makeModHdrs(ds.EdgeHeaderRewrite, ds.RemapText).toOrigin ])

\* C3: with an empty list of parents createRulesOld stops only for a reason
\* the parents have no part in, and otherwise returns, without an error, one
\* rule for each protocol pair and regex of every delivery service it did not
\* skip, each rule with no 'to' destination.
C3_EmptyParentsStillRules ==
    (parents = <<>> /\ pc \in { "loop", "done", "error", "panic" }) =>
        /\ RulesSoFarComplete
        /\ \A k \in 1..Len(rules) : rules[k].To = <<>>
        /\ pc # "panic"
        /\ (pc = "error" /\ i \in DSIndex) => FatalInput(dses[i])
        /\ pc = "done" => result.err = "" /\ result.Rules = rules

C3_Witness ==
    /\ pc = "done"
    /\ parents = <<>>
    /\ Len(dses) = 2
    /\ \A k \in DSIndex : ~Skipped(dses[k]) /\ ExpectedCount(dses[k]) > 0
    /\ Len(result.Rules) = ExpectedCount(dses[1]) + ExpectedCount(dses[2])

C6_ACLFailureSkips ==
    [][(pc = "loop" /\ i \in DSIndex /\ ReachesACL(dses[i]) /\ ACLFails(dses[i]))
         => (i' = i + 1 /\ rules' = rules /\ pc' = "loop" /\ result' = result)]_vars

C6_Witness ==
    /\ pc = "done"
    /\ Len(dses) = 2
    /\ ReachesACL(dses[1]) /\ ACLFails(dses[1])
    /\ result.err = ""
    /\ RulesOf(dses[1], result.Rules) = <<>>
    /\ RulesOf(dses[2], result.Rules) # <<>>

\* C7: createRulesOld never gets past a delivery service of a known type
\* whose header rewrite makeModHdrs refuses, and when it has stopped it has
\* returned an error and no rules.
C7_HeaderFailureFatal ==
    /\ \A k \in DSIndex :
         (KnownType(dses[k]) /\ HeadersFail(dses[k])) =>
            (pc \in { "loop", "done", "panic" } => i <= k /\ (i = k => pc = "loop"))
    /\ pc = "error" => result.err # "" /\ result.Rules = <<>>

C7_Witness ==
    /\ pc = "error"
    /\ i = 2
    /\ rules # <<>>
    /\ LookedUp(dses[2]) /\ KnownType(dses[2]) /\ HeadersFail(dses[2])
    /\ result.err = "Making headers"
    /\ result.Rules = <<>>

\* C8: once createCertificateFiles has failed, createRulesOld has returned
\* an error and no rules.
C8_CertificateWriteFailureFatal ==
    (\E m \in 1..Len(log) : log[m].msg = "failed to create certificate") =>
        (pc = "error" /\ result.err # "" /\ result.Rules = <<>>)

\* C9: a rule names a certificate file and a key file exactly when its from
\* scheme is https and the delivery service has a certificate record; the
\* https rules of a delivery service that was not skipped are there, one for
\* each https pair and regex, with or without a record, and a missing record
\* does not stop createRulesOld.
C9_CertificateReferences ==
    /\ \A k \in 1..Len(rules) :
         LET rule == rules[k]
             id == DSOfRule(rule).XMLID
             bound == FromHTTPS(rule) /\ id \in DOMAIN dsCerts
         IN /\ rule.CertificateFile # <<>> <=> bound
            /\ rule.CertificateKeyFile # <<>> <=> bound
            /\ bound => /\ rule.CertificateFile = getCertFileName(dsCerts[id], certDir)
                        /\ rule.CertificateKeyFile
                             = getCertKeyFileName(dsCerts[id], certDir)
    /\ \A k \in DSIndex :
         /\ (k < i /\ ~Skipped(dses[k])) =>
              Len(SelectSeq(RulesOf(dses[k], rules), FromHTTPS))
                = Len(SelectSeq(protocolStrsOf(dses[k].Protocol), PairFromHTTPS))
                  * Len(dsRegexes[dses[k].XMLID])
         /\ (dses[k].XMLID \notin DOMAIN dsCerts /\ ~Fatal(dses[k])) =>
              ~(pc \in { "error", "panic" } /\ i = k)

C9_Witness ==
    /\ pc = "done"
    /\ result.err = ""
    /\ \E k \in 1..Len(result.Rules) :
         /\ FromHTTPS(result.Rules[k])
         /\ DSOfRule(result.Rules[k]).XMLID \notin DOMAIN dsCerts
         /\ result.Rules[k].CertificateFile = <<>>
         /\ result.Rules[k].CertificateKeyFile = <<>>
    /\ \E k \in 1..Len(result.Rules) :
         /\ FromHTTPS(result.Rules[k])
         /\ result.Rules[k].CertificateFile # <<>>

\* C10: getParents returns an error, and no parents, when the hostname is
\* not among the servers or the cache group of the host is not among the
\* cache groups, and createRulesOldAPI goes no further; createRulesOld never
\* gets past a delivery service whose CDN is not in the map, and when it has
\* stopped it has returned an error and no rules.
C10_LookupErrorsFatal ==
    /\ pc = "returned" =>
         IF \/ host \notin DOMAIN servers
            \/ servers[host].Cachegroup \notin DOMAIN cachegroups
         THEN parentsErr # "" /\ parents = <<>>
         ELSE parentsErr = ""
    /\ pc = "exit" =>
         \/ host \notin DOMAIN servers
         \/ /\ servers[host].Cachegroup \notin DOMAIN cachegroups
            /\ parentsErr # ""
            /\ parents = <<>>
    /\ pc \in { "sameCDN", "available", "fetch", "createRulesOld", "loop", "done",
                "error", "panic" } =>
         /\ host \in DOMAIN servers
         /\ servers[host].Cachegroup \in DOMAIN cachegroups
         /\ parentsErr = ""
    /\ \A k \in DSIndex :
         ~CDNKnown(dses[k]) =>
            (pc \in { "loop", "done", "panic" } => i <= k /\ (i = k => pc = "loop"))
    /\ pc = "error" => result.err # "" /\ result.Rules = <<>>

C10_Witness ==
    /\ pc = "returned"
    /\ host \notin DOMAIN servers
    /\ parentsErr = "hostname not found in Servers"
    /\ parents = <<>>

\* the number of rules of the i-th delivery service in the output
CompiledCount(k) == IF Skipped(dses[k]) THEN 0 ELSE ExpectedCount(dses[k])

\* the number of rules of the delivery services before the k-th
RECURSIVE RulesBefore(_)
RulesBefore(k) == IF k <= 1 THEN 0 ELSE RulesBefore(k - 1) + CompiledCount(k - 1)

\* the name of the j-th rule of the delivery service when the protocol pairs
\* come first and the regexes second
RuleNameAt(ds, j) ==
    LET R == Len(dsRegexes[ds.XMLID])
        pair == protocolStrsOf(ds.Protocol)[((j - 1) \div R) + 1]
        regex == dsRegexes[ds.XMLID][((j - 1) % R) + 1]
    IN ds.XMLID \o DOT \o pair.From \o DOT \o pair.To \o DOT
       \o trimLiteralRegex(regex.Pattern).s

\* C11: the rules are in the order of the delivery services, within a
\* delivery service in the order of its protocol pairs, and within a protocol
\* pair in the order of the regex list; the rules returned are these.
C11_RuleOrder ==
    /\ pc \in { "loop", "done" } =>
         /\ Len(rules) = RulesBefore(i)
         /\ \A k \in DSIndex :
              (k < i /\ ~Skipped(dses[k])) =>
                 \A j \in 1..ExpectedCount(dses[k]) :
                     rules[RulesBefore(k) + j].Name = RuleNameAt(dses[k], j)
    /\ pc = "done" => result.Rules = rules

C11_Witness ==
    /\ pc = "done"
    /\ Len(dses) = 2
    /\ \A k \in DSIndex :
         /\ ~Skipped(dses[k])
         /\ Len(protocolStrsOf(dses[k].Protocol)) = 2
         /\ Len(dsRegexes[dses[k].XMLID]) = 2
    /\ Len(result.Rules) = 8
    /\ parents # <<>>

\* C12: a delivery service that was compiled has as many rules in the output
\* as it has protocol pairs times regexes: 4 for the dual protocol and two
\* regexes.
C12_RuleCount ==
    \A k \in DSIndex :
        (pc \in { "loop", "done" } /\ k < i /\ ~Skipped(dses[k])) =>
            /\ Len(RulesOf(dses[k], rules))
                 = Len(protocolStrsOf(dses[k].Protocol)) * Len(dsRegexes[dses[k].XMLID])
            /\ (dses[k].Protocol = ProtocolHTTPAndHTTPS
                  /\ Len(dsRegexes[dses[k].XMLID]) = 2)
                 => Len(RulesOf(dses[k], rules)) = 4
            /\ pc = "done" => RulesOf(dses[k], result.Rules) = RulesOf(dses[k], rules)

C12_Witness ==
    /\ pc = "done"
    /\ \E k \in DSIndex :
         /\ dses[k].Protocol = ProtocolHTTPAndHTTPS
         /\ HasRegexes(dses[k])
         /\ Len(dsRegexes[dses[k].XMLID]) = 2
         /\ Len(RulesOf(dses[k], result.Rules)) = 4
    /\ \E k \in DSIndex :
         /\ dses[k].Protocol = ProtocolHTTPS
         /\ Len(RulesOf(dses[k], result.Rules)) = 2

\* the pair of schemes in the name of a rule of the delivery service
SchemesOf(rule, ds) ==
    CHOOSE pair \in { sHTTP, sHTTPS } \X { sHTTP, sHTTPS } :
        HasPrefix(rule.Name, ds.XMLID \o DOT \o pair[1] \o DOT \o pair[2] \o DOT)

\* the pairs of schemes of the rules of the delivery service, one for each
\* run of rules as long as the regex list
PairSeq(ds, rs) ==
    LET R == Len(dsRegexes[ds.XMLID])
        mine == RulesOf(ds, rs)
    IN [ n \in 1..(Len(mine) \div R) |-> SchemesOf(mine[(n - 1) * R + 1], ds) ]

\* C13: the rules of a compiled delivery service are those of the pair
\* (http,http) for HTTP only, of (https,https) for HTTPS only, of (http,http)
\* then (https,https) for the dual protocol, and of (http,https) then
\* (https,https) for the forced upgrade.
C13_ProtocolExpansion ==
    \A k \in DSIndex :
        (pc \in { "loop", "done" } /\ k < i /\ ~Skipped(dses[k])) =>
            LET pairs == PairSeq(dses[k], rules)
                protocol == dses[k].Protocol
            IN /\ protocol = ProtocolHTTP => pairs = << << sHTTP, sHTTP >> >>
               /\ protocol = ProtocolHTTPS => pairs = << << sHTTPS, sHTTPS >> >>
               /\ protocol = ProtocolHTTPAndHTTPS
                    => pairs = << << sHTTP, sHTTP >>, << sHTTPS, sHTTPS >> >>
               /\ protocol = ProtocolHTTPToHTTPS
                    => pairs = << << sHTTP, sHTTPS >>, << sHTTPS, sHTTPS >> >>
               /\ protocol \in { ProtocolHTTP, ProtocolHTTPS, ProtocolHTTPAndHTTPS,
                                 ProtocolHTTPToHTTPS }

C13_Witness ==
    /\ pc = "done"
    /\ Len(dses) = 2
    /\ dses[1].Protocol = ProtocolHTTPToHTTPS
    /\ dses[2].Protocol = ProtocolHTTPAndHTTPS
    /\ PairSeq(dses[1], result.Rules) = << << sHTTP, sHTTPS >>, << sHTTPS, sHTTPS >> >>
    /\ PairSeq(dses[2], result.Rules) = << << sHTTP, sHTTP >>, << sHTTPS, sHTTPS >> >>

\* the servers of the parent cache group of the host
InParentCachegroup ==
    { s \in { servers[h] : h \in DOMAIN servers } :
        s.Cachegroup = cachegroups[servers[host].Cachegroup].ParentName }

\* those of them on the CDN of the host and with an available status
EligibleParents ==
    { s \in InParentCachegroup :
        /\ s.CDNName = servers[host].CDNName
        /\ ToLower(s.Status) \in AvailableStatuses }

\* C14: getParents returns the servers of the parent cache group of the host,
\* each once; the two filters give the same parents in either order; the
\* parents createRulesOld gets are the servers of the parent cache group that
\* are on the CDN of the host and available, each once, and an empty list of
\* them is no error: createRulesOldAPI exits only when a look-up fails.
C14_ParentsExact ==
    /\ pc = "sameCDN" =>
         LET cdn == [ s \in Range(parents) |-> sameCDN(s, servers[host]) ]
             up == [ s \in Range(parents) |-> serverAvailable(s) ]
         IN /\ Range(parents) = InParentCachegroup
            /\ Len(parents) = Cardinality(InParentCachegroup)
            /\ filterParents(filterParents(parents, cdn), up)
                 = filterParents(filterParents(parents, up), cdn)
    /\ pc \in { "fetch", "createRulesOld", "loop", "done", "error", "panic" } =>
         /\ Range(parents) = EligibleParents
         /\ Len(parents) = Cardinality(EligibleParents)
         /\ parentsErr = ""
    /\ pc = "exit" =>
         \/ host \notin DOMAIN servers
         \/ servers[host].Cachegroup \notin DOMAIN cachegroups

C14_Witness ==
    /\ pc = "createRulesOld"
    /\ Cardinality(InParentCachegroup) = 4
    /\ Len(parents) = 2
    /\ \E s \in InParentCachegroup : s.CDNName # servers[host].CDNName
    /\ \E s \in InParentCachegroup : ToLower(s.Status) \notin AvailableStatuses

\* a host without parents gets as far as createRulesOld
C14_WitnessNoParents ==
    /\ pc = "createRulesOld"
    /\ InParentCachegroup = {}
    /\ parents = <<>>

\* the bits of a sequence of bytes, the first bit of the first byte first
BitsOf(bytes) ==
    [ n \in 1..(8 * Len(bytes)) |->
        (bytes[((n - 1) \div 8) + 1] \div (2 ^ (7 - ((n - 1) % 8)))) % 2 ]

\* the bit width of a range token: 128 when one of its addresses is IPv6
WidthOf(tok) ==
    IF Len(tok.start.bytes) = 16 \/ Len(tok.end.bytes) = 16 THEN 128 ELSE 32

\* the bits of an address of the table at the width W
AddrBits(a, W) ==
    BitsOf(IF W = 128 /\ Len(a.bytes) = 4 THEN v4InV6Prefix \o a.bytes ELSE a.bytes)

\* net is the block the claim describes for the range token
RangeBlockOK(tok, net) ==
    LET W == WidthOf(tok)
        sb == AddrBits(tok.start, W)
        eb == AddrBits(tok.end, W)
        mb == BitsOf(net.Mask)
        p == Cardinality({ k \in 1..Len(mb) : mb[k] = 1 })
    IN /\ Len(mb) = W
       /\ mb = [ k \in 1..W |-> IF k <= p THEN 1 ELSE 0 ]
       /\ SubSeq(sb, 1, p) = SubSeq(eb, 1, p)
       /\ p < W => sb[p + 1] # eb[p + 1]
       /\ net.IP # Nil
       /\ BitsOf(net.IP[1]) = [ k \in 1..W |-> IF k <= p THEN sb[k] ELSE 0 ]
       /\ SubSeq(BitsOf(net.IP[1]), 1, p) = SubSeq(eb, 1, p)

MakeACLReturned == pc = "returned" /\ arg.fn = "makeACL"

\* C15: for a policy of range tokens makeACL returns one block for each, and
\* the block of a range token has the longest prefix on which start and end
\* agree, start masked to that prefix as its address, and holds both start
\* and end; 10.0.0.1-10.0.0.6 gives 10.0.0.0/29.
C15_RangeBlock ==
    (MakeACLReturned /\ arg.head = sActionAllow) =>
        /\ (arg.toks # <<>> /\ \A n \in 1..Len(arg.toks) : arg.toks[n].kind = "range")
             => ~ret.err /\ Len(ret.allow) = Len(arg.toks)
        /\ ~ret.err =>
             \A n \in 1..Len(arg.toks) :
                 arg.toks[n].kind = "range" =>
                    /\ n <= Len(ret.allow)
                    /\ RangeBlockOK(arg.toks[n], ret.allow[n])
                    /\ (arg.toks[n].start = A10_0_0_1 /\ arg.toks[n].end = A10_0_0_6)
                         => ret.allow[n] = [ IP |-> Some(<< 10, 0, 0, 0 >>),
                                             Mask |-> << 255, 255, 255, 248 >> ]

C15_Witness ==
    /\ MakeACLReturned
    /\ arg.remapTxt = sActionAllow \o << SP >> \o A10_0_0_1.text \o << "-" >>
                      \o A10_0_0_6.text
    /\ ret = [ err |-> FALSE,
               allow |-> << [ IP |-> Some(<< 10, 0, 0, 0 >>),
                              Mask |-> << 255, 255, 255, 248 >> ] >> ]

\* C16: for a policy of address and range tokens makeACL returns no error,
\* and the block of a single address, bare or after @src_ip=, is that
\* address with a mask of 32 or 128 ones.
C16_SingleHostCIDR ==
    (/\ MakeACLReturned /\ arg.head = sActionAllow /\ arg.toks # <<>>
     /\ \A n \in 1..Len(arg.toks) : arg.toks[n].kind # "bad") =>
        /\ ~ret.err
        /\ Len(ret.allow) = Len(arg.toks)
        /\ \A n \in 1..Len(arg.toks) :
             arg.toks[n].kind = "single" =>
                ret.allow[n] = [ IP |-> Some(arg.toks[n].start.bytes),
                                 Mask |-> [ k \in 1..Len(arg.toks[n].start.bytes) |-> 255 ] ]

\* C17: makeACL returns an error for a policy that starts with @action=allow
\* and has no token or a token that is neither an address nor a range, and
\* an empty list without an error for a policy that does not start with
\* @action=allow.
C17_MakeACLErrors ==
    MakeACLReturned =>
        /\ (/\ arg.head = sActionAllow
            /\ \/ arg.toks = <<>>
               \/ \E n \in 1..Len(arg.toks) : arg.toks[n].kind = "bad") => ret.err
        /\ arg.head # sActionAllow => ret = [ err |-> FALSE, allow |-> <<>> ]

MakeModHdrsReturned == pc = "returned" /\ arg.fn = "makeModHdrs"

\* the header X-Test: foo
HdrXTest == [ Name |-> << "X-Test" >>, Value |-> << "foo" >> ]

\* C18 as stated: for the single line
\* cond %{SEND_RESPONSE_HDR_HOOK} set-header X-Test foo
\* makeModHdrs returns the header X-Test: foo in the client-bound set list and
\* an empty origin-bound list.
C18_OneLineCompiles ==
    (MakeModHdrsReturned /\ arg.lines = << CondSetOneLine >>) =>
        ret = [ err |-> FALSE, toClient |-> [ Set |-> << HdrXTest >>, Drop |-> <<>> ],
                toOrigin |-> NoModHdrs ]

\* C18: for the two lines cond %{SEND_RESPONSE_HDR_HOOK} and
\* set-header X-Test foo, with __RETURN__ between them, makeModHdrs returns
\* the header X-Test: foo in the client-bound set list and an empty
\* origin-bound list; for the same words on one line it returns two empty
\* lists and no error.
C18_CondLineThenSetLine ==
    MakeModHdrsReturned =>
        /\ arg.lines = << CondResponse, SetXTest >> =>
             ret = [ err |-> FALSE,
                     toClient |-> [ Set |-> << HdrXTest >>, Drop |-> <<>> ],
                     toOrigin |-> NoModHdrs ]
        /\ arg.lines = << CondSetOneLine >> =>
             ret = [ err |-> FALSE, toClient |-> NoModHdrs, toOrigin |-> NoModHdrs ]

C18_Witness ==
    /\ MakeModHdrsReturned
    /\ arg.edgeHRW = sCond \o << SP >> \o sResponseHook \o << SP >> \o sReturn
                     \o << SP >> \o sSetHeader \o << SP, "X-Test", SP, "foo" >>
    /\ ret.toClient.Set = << HdrXTest >>
    /\ ret.toOrigin = NoModHdrs

\* a line makeModHdrs takes: empty, or of two tokens or more, three or more
\* for set-header and add-header
WellFormed(l) == l.ntok = 0 \/ (l.ntok >= 2 /\ (l.kind = "set" => l.ntok >= 3))

\* the direction at the n-th line: that of the last condition line before it
\* that names a hook, origin-bound when there is none
DirAt(ls, n) ==
    LET named == { m \in 1..(n - 1) : ls[m].kind = "cond" /\ ls[m].dir # "none" }
    IN IF named = {} THEN "origin"
       ELSE ls[CHOOSE m \in named : \A k \in named : k <= m].dir

\* the lines of the kind at which the direction is dir, in line order
Recorded(ls, dir, kind) ==
    LET keep(n) == ls[n].kind = kind /\ DirAt(ls, n) = dir
    IN SelectSeq([ n \in 1..Len(ls) |-> n ], keep)

\* the web.ModHdrs of the direction
ExpectedHdrs(ls, dir) ==
    LET sets == Recorded(ls, dir, "set")
        rms == Recorded(ls, dir, "rm")
    IN [ Set |-> [ k \in 1..Len(sets) |->
                     [ Name |-> ls[sets[k]].name, Value |-> ls[sets[k]].value ] ],
         Drop |-> [ k \in 1..Len(rms) |-> ls[rms[k]].name ] ]

\* C19: whenever makeModHdrs returns lists, the direction started as
\* origin-bound, a condition line that names the request hook or the response
\* hook set it, any other condition line left it, and every set-header,
\* add-header and rm-header line is recorded, in line order, in the list of
\* the direction at that line; it returns lists for every policy whose lines
\* are all empty or well formed.
C19_Direction ==
    MakeModHdrsReturned =>
        /\ ~ret.err =>
             /\ ret.toClient = ExpectedHdrs(arg.lines, "client")
             /\ ret.toOrigin = ExpectedHdrs(arg.lines, "origin")
        /\ (\A n \in 1..Len(arg.lines) : WellFormed(arg.lines[n])) => ~ret.err

C19_Witness ==
    /\ MakeModHdrsReturned
    /\ arg.lines = << SetXTest, CondResponse, RmInternal >>
    /\ ret.toOrigin = [ Set |-> << HdrXTest >>, Drop |-> <<>> ]
    /\ ret.toClient = [ Set |-> <<>>, Drop |-> << << "X-Internal" >> >> ]

\* C20: makeModHdrs returns an error for every policy with a line of fewer
\* than two tokens or a set-header or add-header line of fewer than three.
C20_MalformedFails ==
    (/\ MakeModHdrsReturned
     /\ \E n \in 1..Len(arg.lines) :
          \/ arg.lines[n].ntok < 2
          \/ arg.lines[n].kind = "set" /\ arg.lines[n].ntok < 3) => ret.err
CompileDSReturned == pc = "returned" /\ arg.fn = "compileDS"

\* C21: every rule of a delivery service has the query-string policy
\* {remap:false, cache:false} when the setting of the delivery service is
\* no-cache-no-remap and {remap:true, cache:true} for every other setting.
C21_QueryStringPolicy ==
    (CompileDSReturned /\ ret.kind = "rules") =>
        \A k \in 1..Len(ret.rules) :
            ret.rules[k].QueryString =
                IF arg.ds.QStringIgnore = DeliveryServiceQueryStringNoCacheNoRemap
                THEN [ Remap |-> FALSE, Cache |-> FALSE ]
                ELSE [ Remap |-> TRUE, Cache |-> TRUE ]

\* the types whose routes leave the mid tier out
SkippingTypes == { TypeHTTPNoCache, TypeHTTPLive, TypeHTTPLiveExt, TypeDNSLive }

\* the port of a parent as text
PortText(parent) == IF parent.TCPPort = 80 THEN "80" ELSE "8080"

\* http://<parent host>.<parent domain>:<parent port>
ProxyOf(parent) ==
    << "h","t","t","p", ":","/","/" >> \o parent.HostName \o << "." >>
    \o parent.DomainName \o << ":", PortText(parent) >>

\* C22: every rule has one 'to' destination for each parent, in the order of
\* the parents, with the origin URI of the delivery service as URL and
\* http://<parent host>.<parent domain>:<parent port> as proxy URL, the proxy
\* URL being empty for the types that skip the mid tier.
C22_ToPerParent ==
    (CompileDSReturned /\ ret.kind = "rules") =>
        \A k \in 1..Len(ret.rules) :
            /\ Len(ret.rules[k].To) = Len(arg.parents)
            /\ \A j \in 1..Len(arg.parents) :
                 /\ ret.rules[k].To[j].URL = arg.ds.OrgServerFQDN
                 /\ ret.rules[k].To[j].ProxyURL =
                      Some(IF arg.ds.Type \in SkippingTypes THEN <<>>
                           ELSE ProxyOf(arg.parents[j]))

C22_Witness ==
    /\ CompileDSReturned
    /\ ret.kind = "rules"
    /\ arg.ds.Type = TypeHTTPLiveNatnl
    /\ arg.parents = << Mid2, Mid1 >>
    /\ Len(ret.rules) = 4
    /\ ret.rules[4].To[1].ProxyURL = Some(ProxyOf(Mid2))
    /\ ret.rules[4].To[2].ProxyURL = Some(ProxyOf(Mid1))

\* the from-expression the claim gives for a regex of the table
FromOf(scheme, rx, type) ==
    scheme \o << ":","/","/" >> \o
    (IF ~rx.literal THEN rx.Pattern
     ELSE (IF type \in HTTPTypes THEN HostEdge ELSE << "e","d","g","e" >>)
          \o << "." >> \o rx.inner \o << "." >> \o << "cdn1.example.net" >>)

\* C23: the rule of a protocol pair and a regex has the from-expression
\* scheme://<target host>.<pattern>.<CDN domain> for a literal pattern and an
\* HTTP type, scheme://edge.<pattern>.<CDN domain> for a literal pattern and a
\* DNS type, scheme://<pattern> for any other pattern, unchanged; its name is
\* <xml id>.<from scheme>.<to scheme>.<trimmed pattern>.
C23_FromAndName ==
    (CompileDSReturned /\ ret.kind = "rules") =>
        LET pairs == protocolStrsOf(arg.ds.Protocol)
            n == Len(arg.regexes)
        IN /\ Len(ret.rules) = Len(pairs) * n
           /\ \A p \in 1..Len(pairs) : \A r \in 1..n :
                /\ ret.rules[(p - 1) * n + r].From
                     = FromOf(pairs[p].From, arg.regexes[r], arg.ds.Type)
                /\ ret.rules[(p - 1) * n + r].Name
                     = arg.ds.XMLID \o << "." >> \o pairs[p].From \o << "." >>
                       \o pairs[p].To \o << "." >> \o arg.regexes[r].inner

C23_Witness ==
    /\ CompileDSReturned
    /\ ret.kind = "rules"
    /\ arg.ds.Type = TypeDNS
    /\ arg.ds.Protocol = ProtocolHTTPToHTTPS
    /\ arg.regexes = << RegexLiteral, RegexRaw >>
    /\ ret.rules[1].From = << "h","t","t","p", ":","/","/", "e","d","g","e", ".",
                              "ds","1", ".", "cdn1.example.net" >>
    /\ ret.rules[1].Name = << "ds","1", ".", "h","t","t","p", ".",
                              "h","t","t","p","s", ".", "ds","1" >>
    /\ ret.rules[2].From = << "h","t","t","p", ":","/","/", "www","1",".example.org" >>

TrimLiteralRegexReturned == pc = "returned" /\ arg.fn = "trimLiteralRegex"

\* C24: trimLiteralRegex returns for every text: for a text with the literal
\* prefix and the literal suffix, the text t and true, where the prefix, t
\* and the suffix make up the text; for any other text, the text and false.
C24_TrimLiteralRegexTotal ==
    TrimLiteralRegexReturned =>
        /\ ~ret.panic
        /\ IF HasPrefix(arg.s, LiteralPrefix) /\ HasSuffix(arg.s, LiteralSuffix)
           THEN ret.literal /\ LiteralPrefix \o ret.s \o LiteralSuffix = arg.s
           ELSE ~ret.literal /\ ret.s = arg.s
\* what the file at the target path holds, Nil when there is no such file
TargetOn(d) == IF arg.path \in DOMAIN d.files THEN Some(d.files[arg.path]) ELSE Nil

\* the backup of the previous contents is complete
BackupTaken ==
    /\ backupPathOf(arg.path, sNow) \in DOMAIN disk.files
    /\ disk.files[backupPathOf(arg.path, sNow)] = gzip(arg.before[1])

\* C25: at every step of WriteAndBackup and after it has returned, the
\* target path holds all of the previous contents or all of the new ones (no
\* file when there was none before); it returns no error exactly when it
\* holds the new ones; the target changes only once the backup of the
\* previous contents is complete; and a target that does not exist is not
\* an error of the backup, which then writes nothing.
C25_FailSafe ==
    /\ [](arg.fn = "WriteAndBackup" =>
            /\ TargetOn(disk) \in { arg.before, Some(arg.bts) }
            /\ pc = "written" => TargetOn(disk) = IF ret = "" THEN Some(arg.bts)
                                                 ELSE arg.before
            /\ arg.before = Nil =>
                 /\ backupPathOf(arg.path, sNow) \notin DOMAIN disk.files
                 /\ pc \notin { "os.MkdirAll", "CopyAndGzipFile", "os.Create", "io.Copy",
                                "gzip.Close", "Sync" })
    /\ [][(arg.fn = "WriteAndBackup" /\ TargetOn(disk') # TargetOn(disk) /\ arg.before # Nil)
            => BackupTaken]_vars

C25_Witness ==
    /\ arg.fn = "WriteAndBackup"
    /\ pc = "written"
    /\ ret = ""
    /\ arg.before = Some(<< "o", "o" >>)
    /\ arg.bts = << "n", "n" >>
    /\ disk.files[arg.path] = << "n", "n" >>
    /\ disk.files[backupPathOf(arg.path, sNow)] = << "gzip", "o", "o" >>
    /\ NewFilename(arg.path) \notin DOMAIN disk.files

\* a monitor config has arrived and its intervals were read
IntervalsRead == arg.fn = "monitorConfigListen" /\ arg.received > 0 /\ ret # <<>>

\* the stat interval of the config in hand is missing, or is not a number
StatUnusable(Config) ==
    \/ sStatInterval \notin DOMAIN Config
    \/ Config[sStatInterval].type # "float64"

\* C26: whenever getHealthPeerStatPollIntervals returns no error for a
\* config whose 'stat.polling.interval' is missing or is not a number, the
\* stat poll interval it returns is the configured 'health.polling.interval'.
C26_StatFallsBackToHealth ==
    (IntervalsRead /\ ~ret.err /\ StatUnusable(arg.monitorConfig.Config))
        => ret.stat = trafficOpsHealthPollIntervalToDuration(
                          arg.monitorConfig.Config[sHealthInterval].f)

\* the intervals of a config cannot be read: health or peers is missing or
\* is not a number
Unreadable(Config) ==
    \E k \in { sHealthInterval, sPeersInterval } :
        k \notin DOMAIN Config \/ Config[k].type # "float64"

\* C27: a step in which monitorConfigListen receives a config whose
\* intervals cannot be read changes neither the config that Get returns, nor
\* the local cache and delivery service states, nor the subscriber channels.
C27_UnreadableConfigChangesNothing ==
    [][ (/\ arg.fn = "monitorConfigListen"
         /\ arg'.received = arg.received + 1
         /\ Unreadable(arg'.monitorConfig.Config))
          => /\ monitorConfigTS' = monitorConfigTS
             /\ localStates' = localStates
             /\ subscribers' = subscribers ]_vars

\* what C27 keeps of its claim: the states and the channels are left alone
C27_StatesAndSubscribersKept ==
    [][ (/\ arg.fn = "monitorConfigListen"
         /\ arg'.received = arg.received + 1
         /\ Unreadable(arg'.monitorConfig.Config))
          => /\ localStates' = localStates
             /\ subscribers' = subscribers ]_vars

\* a step of the run clears the update flag of the host
FlagCleared == arg.fn = "main" /\ tops.UpdatePending /\ ~tops'.UpdatePending

\* C28: the update flag is cleared only by a run that does not ignore the
\* flags, when the remap file holds the new rules and the service has
\* loaded them, and that run exits with 0 (so never after rule creation,
\* the write or the reload has failed); the reval flag is then set to the
\* value read at the start of the run, which is the one Traffic Ops held
\* then; and a run that finds no update pending leaves the disk and the
\* service as they were.
C28_ClearedOnlyAfterReload ==
    /\ [](arg.fn = "main" =>
            /\ (mainv.code \in { Some(1), Some(2), Some(3) } => mainv.posted = Nil)
            /\ (mainv.needsUpdate = Some(FALSE) =>
                  disk = diskAtStart /\ grove = [ loaded |-> Marshal(0) ])
            /\ (mainv.needsUpdate # Nil /\ mainv.posted = Nil /\ tops.revals = 0 =>
                  mainv.revalPendingStatus = tops.RevalPending)
            /\ (mainv.posted # Nil =>
                  (mainv.posted[1].reval = "UpdateStatusPending") = mainv.revalPendingStatus))
    /\ [][ FlagCleared =>
             /\ ~arg.ignoreUpdateFlag
             /\ disk.files[remapPath] = arg.bts
             /\ grove.loaded = arg.bts
             /\ mainv.code = Nil /\ mainv'.code = Some(0)
             /\ tops'.RevalPending = mainv.revalPendingStatus ]_vars

\* a run has written and loaded the rules of the first update and cleared
\* the flag, the reval flag being set
C28_Witness ==
    /\ arg.fn = "main" /\ pc = "os.Exit"
    /\ mainv.posted # Nil /\ mainv.revalPendingStatus
    /\ ~tops.UpdatePending
    /\ grove.loaded = Marshal(1)

\* C29: once a run has exited, if the update flag of the host is clear the
\* remap file holds the rules created from the data as they are after the
\* last update queued; and a reval flag changed since the run read it is
\* posted as it is, not as it was read.
C29_NoQueuedUpdateLost ==
    (arg.fn = "main" /\ pc = "os.Exit") =>
        /\ (~tops.UpdatePending => disk.files[remapPath] = Marshal(tops.queued))
        /\ (mainv.posted # Nil /\ mainv.posted[1].changed =>
              (mainv.posted[1].reval = "UpdateStatusPending") = mainv.posted[1].was)

\* C30: a request for which tenant.HasTenant has reported no access is
\* answered with an error status, and has made no call of the key store and
\* none of generateSSLCertificate.
C30_NoAccessNoKeys ==
    (arg.fn = "ServeHTTP" /\ arg.handled > 0 /\ ~arg.hasAccess) =>
        /\ response.status >= 400
        /\ riak.calls = <<>>

====
